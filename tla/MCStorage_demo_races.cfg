\* The demo data is loaded twice, the second time failing, or while another
\* client deletes everything.
SPECIFICATION StorageSpec
CONSTANTS
  Attachment = {i1}
  Demo = {d1}
  Request = {r1, r2}
  Null = Null
  Operation = {"load", "delete_all"}
  Fault = {"commit"}
  Workers = 2
  MayCrash = FALSE
SYMMETRY Sym
CHECK_DEADLOCK FALSE
INVARIANT RowHasFile
