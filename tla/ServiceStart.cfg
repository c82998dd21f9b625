\* Files of up to three lines, up to four workers on two cores.
CONSTANTS
  Port = {8080, 70000}
  Line <- Lines
  MaxLines = 3
  MaxWorkers = 4
  max_open_files = 4096
  cpu_cores = 2
SPECIFICATION Spec
INVARIANTS WorkersHaveSaneArgs WorkersSpread
