\* Files of up to 14 records of 300 bytes and a header: the last one lies
\* across the end of bufio's buffer.
CONSTANTS
    HeaderSize = 13
    BufferSize = 4096
    PayloadSizes = {300}
    Misread = {0, 300}
    MaxRecords = 14
SPECIFICATION Spec
\* The replay ends.
CHECK_DEADLOCK FALSE
INVARIANT ReplayReadsAll
