--------------------------- MODULE AssemblyBlocks ---------------------------
(***************************************************************************)
(* Where what a child hands over goes in the blocks of its parent.  The    *)
(* tasks that assemble it are inserted with the handles of the blocks      *)
(* they write: a loop over rows and columns collects these, and another    *)
(* one, in the kernel, does the additions.  Here are both: the blocks that *)
(* are declared, and those that are written.                               *)
(*                                                                         *)
(* Rows, columns and blocks are counted from 0.  A front has the columns   *)
(* the analysis gave it, then the delayed ones, then its other rows; `din' *)
(* is the number of delayed columns of the parent of c.                    *)
(*                                                                         *)
(* A definition marked "fault" is the next one of its name with a mistake  *)
(* in it: it is used by nothing here, and shows what a property catches.   *)
(***************************************************************************)
EXTENDS AssemblyTree, FiniteSetsExt, Sequences

CONSTANTS
  BlockSize,     \* options.nb
  Map            \* Map[c][n]: the row of the parent for row n of the
                 \* contribution of c, delayed columns not counted

(* The row lists of the analysis are sorted, and a front that is no root    *)
(* has rows below its columns.                                              *)
ASSUME AssemblyBlocksAssumption ==
  /\ BlockSize \in Nat \ {0}
  /\ Map \in [Front -> Seq(Nat)]
  /\ \A c \in Front :
       /\ HasContrib(c) <=> Map[c] # <<>>
       /\ \A m, n \in DOMAIN Map[c] : m < n => Map[c][m] < Map[c][n]
       /\ \A n \in DOMAIN Map[c] :
            Map[c][n] < NCol[Parent[c]] + Len(Map[Parent[c]])

ContribRows(c) == 0..(Len(Map[c]) - 1)

(* csnode.map: the delayed columns are inserted behind the columns.         *)
cmap(c, din, i) ==
  LET r == Map[c][i + 1] IN IF r < NCol[Parent[c]] THEN r ELSE r + din

block_of(r, c) == <<r \div BlockSize, c \div BlockSize>>

nr(f, din) == (NCol[f] + din + Len(Map[f]) - 1) \div BlockSize + 1

-----------------------------------------------------------------------------
(* The delayed columns of c, n of them, become columns from delay_col on.   *)

(* Rows among the delayed columns, then the other rows of the child: those  *)
(* that are columns of the parent are to the left.                          *)
DelaysWritten(c, din, delay_col, n) ==
  LET Delayed == delay_col..(delay_col + n - 1)
      Mapped  == {cmap(c, din, i) : i \in ContribRows(c)}
      ncol    == NCol[Parent[c]] + din
  IN {block_of(p[1], p[2]) : p \in {q \in Delayed \X Delayed : q[1] >= q[2]}}
       \cup {block_of(d, r) : d \in Delayed, r \in {x \in Mapped : x < ncol}}
       \cup {block_of(r, d) : d \in Delayed, r \in {x \in Mapped : x >= ncol}}

DelaysDeclared_InDelays(c, din, delay_col, n) ==               \* fault
  LET sa == delay_col \div BlockSize
      en == (delay_col + n - 1) \div BlockSize
  IN UNION {{<<rr, cc>> : rr \in Max({sa, cc})..en} : cc \in 0..en}

(* From the first to the last block of the delayed columns: to the left of  *)
(* them these rows only, from there on all rows.                            *)
DelaysDeclared(c, din, delay_col, n) ==
  LET sa == delay_col \div BlockSize
      en == (delay_col + n - 1) \div BlockSize
      br_en(cc) == IF (cc + 1) * BlockSize < delay_col THEN en
                   ELSE nr(Parent[c], din) - 1
  IN UNION {{<<rr, cc>> : rr \in Max({sa, cc})..br_en(cc)} : cc \in 0..en}

-----------------------------------------------------------------------------
(* The contribution of c, tile by tile.  The tiles of a front are aligned   *)
(* with its blocks, `first' columns before them; those of a subtree start   *)
(* with its contribution (first = 0).                                       *)

TileRows(c, first, ii) == {i \in ContribRows(c) : (i + first) \div BlockSize = ii}

Tiles(c, first) ==
  LET at == {(i + first) \div BlockSize : i \in ContribRows(c)}
  IN {t \in at \X at : t[1] >= t[2]}

(* The columns of a tile that go to fully summed columns of the parent, and *)
(* those that go to its contribution block.                                 *)
SummedColumns(c, din, first, jj) ==
  {j \in TileRows(c, first, jj) : cmap(c, din, j) < NCol[Parent[c]]}
ContribColumns(c, din, first, jj) ==
  {j \in TileRows(c, first, jj) : cmap(c, din, j) >= NCol[Parent[c]] + din}

LowerRows(c, first, t, j) ==
  {i \in TileRows(c, first, t[1]) : t[1] = t[2] => i >= j}

(* What the kernel adds the columns cols of tile t to.                      *)
TileWritten(c, din, first, t, cols) ==
  UNION {{block_of(cmap(c, din, i), cmap(c, din, j)) : i \in LowerRows(c, first, t, j)}
           : j \in cols}

(* The handles collected for tile t: a column in the same block column as   *)
(* one before it is skipped.                                                *)
TileDeclared(c, din, first, t, cols) ==
  LET BlockCol(j) == cmap(c, din, j) \div BlockSize
      firsts == {j \in cols : \A k \in cols : k < j => BlockCol(k) # BlockCol(j)}
  IN UNION {{block_of(cmap(c, din, i), cmap(c, din, j)) : i \in LowerRows(c, first, t, j)}
              : j \in firsts}
=============================================================================
