SPECIFICATION Spec
CONSTANT MaxFailures = 2
INVARIANTS TypeOK ShapedAsTheProgram NothingLeft ErrorIffFailed SameAsUntraced
CHECK_DEADLOCK FALSE
