\* Three messages each way through channels of two: a channel is full before
\* the last.
CONSTANTS
  Cap = 2
  MaxMsgs = 3
SPECIFICATION PipeSpec
INVARIANT PipeTypeOK
PROPERTY IsStream
CHECK_DEADLOCK FALSE
