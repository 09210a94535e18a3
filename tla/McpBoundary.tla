---------------------------- MODULE McpBoundary ----------------------------
(***************************************************************************)
(* The security boundary in front of the MCP server,                       *)
(* src/mcp_server/security/middleware.py: every POST is authenticated,     *)
(* checked against the client's allowlist, counted against the rate limit, *)
(* validated and audited before the tool sees it.  POSTs are handled       *)
(* concurrently, by any number of replicas, and every access to the audit  *)
(* table may fail.  The rate limit is read from that table and is not      *)
(* locked between the count and the row the call adds to it.               *)
(***************************************************************************)
EXTENDS Naturals, FiniteSets

CONSTANTS
  Calls,          \* POSTs
  Clients,        \* registered client ids
  Tools,          \* tool names
  NoClient,       \* what an unknown token authenticates as
  Allowlist,      \* <<client, tool>> pairs of mcp_clients.json
  Limit,          \* MCP_RATE_LIMIT_PER_MIN
  MaxConcurrent   \* bound: POSTs between arrival and their audit row

ASSUME McpBoundaryAssumption ==
  /\ IsFiniteSet(Calls)
  /\ NoClient \notin Clients
  /\ Allowlist \subseteq Clients \X Tools
  /\ Limit \in Nat \ {0}
  /\ MaxConcurrent \in Nat \ {0}

VARIABLES
  post,     \* what each POST is: its token's client, method, tool, arguments
  pc,       \* where its handling is
  answer,   \* the HTTP status it gets, 0 while there is none
  audit,    \* its row in mcp_audit_logs: the decision, or "none"
  window    \* the POSTs whose row is less than a minute old

vars == <<post, pc, answer, audit, window>>

Posts == [client : Clients \cup {NoClient}, call : BOOLEAN, tool : Tools, valid : BOOLEAN]

Denials == {"DENIED_UNAUTHENTICATED", "DENIED_UNAUTHORIZED", "DENIED_VALIDATION",
            "DENIED_RATE_LIMITED"}

Steps == {"new", "counting", "denying", "passed", "audited", "tool", "app", "refused"}

TypeOK ==
  /\ post \in [Calls -> Posts]
  /\ pc \in [Calls -> Steps]
  /\ answer \in [Calls -> {0, 202, 401, 403, 422, 429, 503}]
  /\ audit \in [Calls -> Denials \cup {"none", "ALLOWED"}]
  /\ window \subseteq {c \in Calls : audit[c] # "none"}

Init ==
  /\ post \in [Calls -> Posts]
  /\ pc = [c \in Calls |-> "new"]
  /\ answer = [c \in Calls |-> 0]
  /\ audit = [c \in Calls |-> "none"]
  /\ window = {}

----------------------------------------------------------------------------

\* POSTs that have arrived and may still write their row.
InProgress == {c \in Calls : pc[c] \in {"counting", "denying", "passed"}}
Passed     == {c \in Calls : pc[c] = "passed"}

Goto(c, step) == pc' = [pc EXCEPT ![c] = step]
Answer(c, status) == answer' = [answer EXCEPT ![c] = status]

\* Mutant: a refusal without a decision of its own is just "DENIED".
DenialUnnamed(status) ==
  CASE status = 401 -> "DENIED_UNAUTHENTICATED"
    [] status = 403 -> "DENIED_UNAUTHORIZED"
    [] OTHER        -> "DENIED"

Denial(status) ==
  CASE status = 401 -> "DENIED_UNAUTHENTICATED"
    [] status = 403 -> "DENIED_UNAUTHORIZED"
    [] status = 422 -> "DENIED_VALIDATION"
    [] status = 429 -> "DENIED_RATE_LIMITED"

\* The call is refused; its row comes with the next access to the database.
Deny(c, status) == Goto(c, "denying") /\ Answer(c, status)

\* The fail-closed refusals: no row is written.
Unavailable(c) == Goto(c, "refused") /\ Answer(c, 503)

\* Mutant: an authenticated client may call every tool.
IsAllowedForAny(p) == p.client \in Clients

IsAllowed(p) == <<p.client, p.tool>> \in Allowlist

\* Authentication and the allowlist need no database.  Traffic that is no
\* tools/call goes straight to the MCP app.
Arrive(c) ==
  LET p == post[c] IN
  /\ pc[c] = "new"
  /\ Cardinality(InProgress) < MaxConcurrent
  /\ \/ p.client = NoClient /\ Deny(c, 401)
     \/ p.client # NoClient /\ ~p.call /\ Goto(c, "app") /\ Answer(c, 202)
     \/ p.client # NoClient /\ p.call /\ ~IsAllowed(p) /\ Deny(c, 403)
     \/ p.client # NoClient /\ p.call /\ IsAllowed(p) /\ Goto(c, "counting")
                                                      /\ UNCHANGED answer
  /\ UNCHANGED <<post, audit, window>>

\* The rows that count against c: every decision, this client and this tool.
\* A row of an unauthenticated call has client "unknown" and no tool.
Recent(c) == {k \in window : post[k].client = post[c].client /\ post[k].tool = post[c].tool}

\* Mutant: `count > limit_per_min`.
IsRateLimitedOffByOne(c) == Cardinality(Recent(c)) > Limit

IsRateLimited(c) == Cardinality(Recent(c)) >= Limit

\* is_rate_limited, and the validation of the arguments, which awaits nothing.
Count(c) ==
  /\ pc[c] = "counting"
  /\ \/ Unavailable(c)
     \/ IsRateLimited(c) /\ Deny(c, 429)
     \/ ~IsRateLimited(c) /\ ~post[c].valid /\ Deny(c, 422)
     \/ ~IsRateLimited(c) /\ post[c].valid /\ Goto(c, "passed") /\ UNCHANGED answer
  /\ UNCHANGED <<post, audit, window>>

\* Mutant: the audit row of an allowed call is best effort too.
AuditFailsOpen(c) == Goto(c, "audited") /\ UNCHANGED answer

\* What a failed audit write does to a call that was to be allowed.
AuditFails(c) == Unavailable(c)

\* The row of c with this decision is committed, now.
WriteRow(c, decision) ==
  /\ audit' = [audit EXCEPT ![c] = decision]
  /\ window' = window \cup {c}

NoRow == UNCHANGED <<audit, window>>

\* write_audit_log with decision ALLOWED, before the call is forwarded.  When
\* the write raises, its commit may still have reached the database.
AuditAllowed(c) ==
  /\ pc[c] = "passed"
  /\ \/ WriteRow(c, "ALLOWED") /\ Goto(c, "audited") /\ UNCHANGED answer
     \/ (NoRow \/ WriteRow(c, "ALLOWED")) /\ AuditFails(c)
  /\ UNCHANGED post

\* _deny: the row is best effort, the call is refused either way.
AuditDenied(c) ==
  /\ pc[c] = "denying"
  /\ WriteRow(c, Denial(answer[c])) \/ NoRow
  /\ Goto(c, "refused")
  /\ UNCHANGED <<post, answer>>

\* The call reaches the MCP app, and the tool.
Forward(c) ==
  /\ pc[c] = "audited"
  /\ Goto(c, "tool")
  /\ Answer(c, 202)
  /\ UNCHANGED <<post, audit, window>>

\* A minute has passed since the row of c.
Expire(c) ==
  /\ c \in window
  /\ window' = window \ {c}
  /\ UNCHANGED <<post, pc, answer, audit>>

Next ==
  \E c \in Calls :
    Arrive(c) \/ Count(c) \/ AuditAllowed(c) \/ AuditDenied(c) \/ Forward(c) \/ Expire(c)

Spec == Init /\ [][Next]_vars

----------------------------------------------------------------------------
(* Properties.                                                             *)

\* Fail closed: whatever the database does and however calls interleave, a
\* tool runs only for a registered client that may call it, with arguments its
\* schema accepts, and with an ALLOWED row on the audit trail before it runs.
ToolOnlyWhenAuthorized ==
  \A c \in Calls : pc[c] \in {"audited", "tool"} =>
    /\ post[c].client \in Clients
    /\ <<post[c].client, post[c].tool>> \in Allowlist
    /\ post[c].valid
    /\ audit[c] = "ALLOWED"

\* The rows of the last minute that allowed a call of this client to this tool.
AllowedRecently(client, tool) ==
  {c \in window : audit[c] = "ALLOWED" /\ post[c].client = client /\ post[c].tool = tool}

\* The count and the row are two steps, so the limit can be overshot, but never
\* by more than the other POSTs handled at the same time.
OvershootBounded ==
  \A client \in Clients, tool \in Tools :
    Cardinality(AllowedRecently(client, tool)) <= Limit + MaxConcurrent - 1
=============================================================================
