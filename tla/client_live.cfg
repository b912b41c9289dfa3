SPECIFICATION LiveSpec
PROPERTY ClientProgress
CHECK_DEADLOCK FALSE
