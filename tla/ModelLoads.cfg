\* Two models that are swapped in and out.
CONSTANTS
  Models = {big, small}
  MaxLoads = 2
SPECIFICATION MSpec
INVARIANTS MTypeOK RowsMatchLoads ReArmsWhenOthersRun
SYMMETRY Symmetry
