------------------------------ MODULE HeapMap ------------------------------
(***************************************************************************)
(* gdr/heapmap.py: the blocks of a heap walk as a grid of cells, the rows  *)
(* of unused cells folded into bands.  A heap map is a record of base, end *)
(* and blocks; the blocks may overlap, leave gaps, reach past the end or   *)
(* have no extent, as those of a damaged heap do.                          *)
(*                                                                         *)
(* Left out: colours but for used and unused, the dividers, the PNG and    *)
(* terminal encodings.  A quotient of the code is a float; here it is the  *)
(* pair <<numerator, denominator>>.                                        *)
(***************************************************************************)
EXTENDS Integers, Sequences, FiniteSets, SequencesExt

CONSTANTS MaxCells,       \* MAX_CELLS
          MinColumns,     \* of the narrowest bitmap, in cells
          MaxColumns,     \* of the widest
          MaxRows,        \* MAX_ROWS
          LegendUnits     \* the height of the legend, in cells

MapAssumption ==
  /\ MaxCells \in Nat \ {0} /\ MaxRows \in Nat \ {0} /\ LegendUnits \in Nat
  /\ MinColumns \in Nat \ {0} /\ MaxColumns \in Nat \ {0}

Gap == 0                  \* index of a span no block covers, -1 in the code
NoGrid == [width |-> 0, height |-> 0, runs |-> << >>, folds |-> << >>]
TooManyRows == [NoGrid EXCEPT !.height = MaxRows + 1]
Band == << >>             \* a hatched row of the bitmap

CeilDiv(a, b) == (a + b - 1) \div b
Lesser(a, b) == IF a < b THEN a ELSE b
Greater(a, b) == IF a > b THEN a ELSE b
Isqrt(n) == CHOOSE r \in 0..n : r * r <= n /\ (r + 1) * (r + 1) > n
\* the sum of the first n of s
Partial(s, n) == LET p[i \in 0..n] == IF i = 0 THEN 0 ELSE p[i - 1] + s[i] IN p[n]
Total(s) == Partial(s, Len(s))

\* Python's round: to the nearest, a half to the even one.
Round(r) ==
  LET q == r[1] \div r[2]
      twice == 2 * (r[1] % r[2])
  IN IF twice > r[2] \/ (twice = r[2] /\ q % 2 = 1) THEN q + 1 ELSE q

-----------------------------------------------------------------------------
\* Mutation: the last cells are not handed out.
MutSplitCells(sizes, total, reserved) ==
  LET arena == Total(sizes)
      free  == total - Len(sizes)
  IN [i \in DOMAIN sizes |-> IF reserved THEN 1 + (free * sizes[i]) \div arena ELSE (total * sizes[i]) \div arena]

\* _split_cells: largest remainders; every span keeps a cell if reserved
SplitCells(sizes, total, reserved) ==
  LET arena == Total(sizes)
      shared == IF reserved THEN total - Len(sizes) ELSE total
      least == [i \in DOMAIN sizes |-> (shared * sizes[i]) \div arena + IF reserved THEN 1 ELSE 0]
      key(i) == (shared * sizes[i]) % arena
      rank(i) == Cardinality({j \in DOMAIN sizes : key(j) > key(i) \/ (key(j) = key(i) /\ j < i)})
  IN [i \in DOMAIN sizes |-> least[i] + IF rank(i) < total - Total(least) THEN 1 ELSE 0]

\* _distribute: rows and columns, portrait where the widths allow
Distribute(sizes) ==
  LET smallest == CHOOSE n \in ToSet(sizes) : \A k \in ToSet(sizes) : n <= k
      desired  == Greater(Len(sizes), Lesser(MaxCells, CeilDiv(Total(sizes), smallest)))
      rows     == Greater(1, Isqrt(2 * desired))
      most     == Lesser(CeilDiv(desired, rows), MaxColumns)
      columns  == Greater(most, MinColumns)
  IN [columns |-> columns,
      rows |-> IF columns = CeilDiv(desired, rows) THEN rows ELSE Greater(1, CeilDiv(desired, columns))]

Span(start, stop, index) == [start |-> start, size |-> stop - start, index |-> index]
\* from the end of the span before to the start of the next one, if anything
GapTo(was, stop) == IF was.cursor < stop THEN <<Span(was.cursor, stop, Gap)>> ELSE << >>
InOrder(heap) == SetToSortSeq(DOMAIN heap.blocks, LAMBDA i, j : heap.blocks[i].address < heap.blocks[j].address)

\* one block, clipped to what the arena has left; none when nothing is left of it
Clip(was, index, low, high) ==
  IF high <= low THEN was
  ELSE [spans |-> was.spans \o GapTo(was, low) \o <<Span(low, high, index)>>, cursor |-> high]

\* grid_layout: the spans of the arena, in address order, gaps included
Spans(heap) ==
  LET cut(was, i) == Clip(was, i, Greater(heap.blocks[i].address, Greater(heap.base, was.cursor)),
                          Lesser(heap.blocks[i].address + heap.blocks[i].size, heap.end))
      all == FoldLeft(cut, [spans |-> << >>, cursor |-> heap.base], InOrder(heap))
  IN all.spans \o GapTo(all, heap.end)

SizesOf(spans) == [i \in DOMAIN spans |-> spans[i].size]
Unused(heap, span) == span.index = Gap \/ ~heap.blocks[span.index].used

\* consecutive runs of cells, from start on; none for a span without a cell
RunsFrom(start, counts, indices) ==
  LET at(i) == start + Partial(counts, i)
      all == [i \in DOMAIN counts |-> [start |-> at(i - 1), stop |-> at(i), index |-> indices[i]]]
  IN SelectSeq(all, LAMBDA r : r.start < r.stop)

\* _row_exact_layout: every row a window of rowBytes bytes
RowExact(heap, spans, rowBytes) ==
  LET arena   == Total(SizesOf(spans))
      rows    == Greater(1, CeilDiv(arena, rowBytes))
      columns == Distribute(SizesOf(spans)).columns
      Window(w) ==
        LET low  == heap.base + w * rowBytes
            high == Lesser(low + rowBytes, heap.end)
            over(s) == Lesser(s.start + s.size, high) - Greater(s.start, low)
            pieces == SelectSeq(spans, LAMBDA s : over(s) > 0)
        IN RunsFrom(w * columns,
                    SplitCells([i \in DOMAIN pieces |-> over(pieces[i])], columns, Len(pieces) <= columns),
                    [i \in DOMAIN pieces |-> pieces[i].index])
  IN IF rows > MaxRows THEN TooManyRows
     ELSE [width |-> columns, height |-> rows, folds |-> << >>,
           runs |-> FlattenSeq([w \in 1..rows |-> Window(w - 1)])]

\* maximal intervals of consecutive rows, in order
Groups(rows) ==
  LET firsts == {r \in rows : r - 1 \notin rows}
      last(f) == CHOOSE l \in rows : l >= f /\ f..l \subseteq rows /\ l + 1 \notin rows
  IN [i \in 1..Cardinality(firsts) |->
        LET f == SetToSortSeq(firsts, <)[i] IN f..last(f)]

\* One folded group: the cells' shares of their spans, as bytes and as a range.
Fold(heap, spans, counts, columns, group) ==
  LET spanOf(c) == CHOOSE p \in DOMAIN counts : Partial(counts, p - 1) <= c /\ c < Partial(counts, p)
      first == CHOOSE r \in group : \A q \in group : r <= q
      last  == CHOOSE r \in group : \A q \in group : r >= q
      from  == first * columns
      upto  == (last + 1) * columns - 1
      touched == spanOf(from)..spanOf(upto)
      \* <<n, d>>: n of the d parts of the arena before the c-th cell's edge
      edge(c, p) == <<spans[p].start * counts[p] + (c - Partial(counts, p - 1)) * spans[p].size, counts[p]>>
      low  == edge(from, spanOf(from))
      high == edge(upto + 1, spanOf(upto))
      cellsIn(p) == Lesser(upto + 1, Partial(counts, p)) - Greater(from, Partial(counts, p - 1))
      bytes[p \in touched] ==
        LET own == <<cellsIn(p) * spans[p].size, counts[p]>>
        IN IF p = spanOf(from) THEN own
           ELSE <<own[1] * bytes[p - 1][2] + bytes[p - 1][1] * own[2], own[2] * bytes[p - 1][2]>>
      gap  == \E p \in touched : spans[p].index = Gap
      free == \E p \in touched : spans[p].index # Gap
  IN [row |-> first, rows |-> Cardinality(group), bytes |-> Round(bytes[spanOf(upto)]),
      kind |-> IF gap /\ free THEN "mixed" ELSE IF gap THEN "unknown" ELSE "free",
      start |-> Round(low), end |-> Round(high)]

\* Mutation: a row folds as soon as one of its cells is unused.
MutFolded(heap, spans, counts, grid) ==
  {r \in 0..(grid.rows - 1) :
     \E p \in DOMAIN spans : Unused(heap, spans[p]) /\ Partial(counts, p) > r * grid.columns
                             /\ Partial(counts, p - 1) < (r + 1) * grid.columns}

\* the rows that fold: every cell unused, but never all rows
Folded(heap, spans, counts, grid) ==
  LET rows == {r \in 0..(grid.rows - 1) :
                 \A p \in DOMAIN spans :
                   Partial(counts, p) > r * grid.columns /\ Partial(counts, p - 1) < (r + 1) * grid.columns
                     => Unused(heap, spans[p])}
  IN IF rows = 0..(grid.rows - 1) THEN {} ELSE rows

\* the heights of the bands, which share the units that the legend is taller by
Heights(groups, rows) ==
  LET shown == rows - Cardinality(UNION ToSet(groups)) + Len(groups)
      extra == Greater(shown, LegendUnits) - shown
  IN [i \in DOMAIN groups |-> 1 + extra \div Len(groups) + IF i <= extra % Len(groups) THEN 1 ELSE 0]

\* the grid of these spans, with these cells each and these rows folded
Grid(heap, spans, size, counts, groups) ==
  LET heights == Heights(groups, size.rows)
  IN [width |-> size.columns, height |-> size.rows,
      runs |-> RunsFrom(0, counts, [i \in DOMAIN spans |-> spans[i].index]),
      folds |-> [i \in DOMAIN groups |->
                   [fold |-> Fold(heap, spans, counts, size.columns, groups[i]), height |-> heights[i]]]]

GridOfCells(heap, spans, size, counts) ==
  Grid(heap, spans, size, counts, Groups(Folded(heap, spans, counts, size)))

GridOfSize(heap, spans, size) ==
  GridOfCells(heap, spans, size, SplitCells(SizesOf(spans), size.rows * size.columns, TRUE))

\* grid_layout
GridLayout(heap) ==
  LET spans == Spans(heap)
  IN IF spans = << >> THEN NoGrid ELSE GridOfSize(heap, spans, Distribute(SizesOf(spans)))

RowGrid(heap, rowBytes) == IF Spans(heap) = << >> THEN NoGrid ELSE RowExact(heap, Spans(heap), rowBytes)

\* rasterize: the bitmap's rows, a fold's bands in the place of its rows
Rasterize(grid) ==
  LET fold(i) == grid.folds[i].fold
      covered == UNION {fold(i).row .. (fold(i).row + fold(i).rows - 1) : i \in DOMAIN grid.folds}
      bands(r) == LET here == {i \in DOMAIN grid.folds : fold(i).row = r}
                  IN IF here = {} THEN << >>
                     ELSE LET i == CHOOSE x \in here : TRUE IN [k \in 1..grid.folds[i].height |-> Band]
      cells(r) == [k \in 1..grid.width |->
                     LET c == r * grid.width + k - 1
                     IN (CHOOSE x \in ToSet(grid.runs) : x.start <= c /\ c < x.stop).index]
  IN FlattenSeq([k \in 1..grid.height |->
       bands(k - 1) \o IF k - 1 \in covered THEN << >> ELSE <<cells(k - 1)>>])

-----------------------------------------------------------------------------
\* A grid tiles its cells: runs without gap or overlap that fill every row.
Tiles(grid) ==
  /\ grid.runs[1].start = 0 /\ Last(grid.runs).stop = grid.width * grid.height
  /\ \A i \in 2..Len(grid.runs) : grid.runs[i].start = grid.runs[i - 1].stop

\* The spans cover the arena, and each is one run, in order; of an arena that
\* does not end past its base nothing is drawn, whatever blocks there are.
DrawsTheArena(heap, spans, grid) ==
  IF heap.base >= heap.end THEN spans = << >> /\ grid = NoGrid
  ELSE /\ Total(SizesOf(spans)) = heap.end - heap.base
       /\ Tiles(grid) /\ Len(grid.runs) = Len(spans)
       /\ \A i \in DOMAIN spans : grid.runs[i].index = spans[i].index

\* The i-th block is a span of the drawing from its first byte to its last.
IsWhole(heap, spans, i) == Span(heap.blocks[i].address, heap.blocks[i].address + heap.blocks[i].size, i) \in ToSet(spans)

\* The i-th block has bytes, all in the arena and none shared with another.
StandsApart(heap, i) ==
  LET low(j)  == heap.blocks[j].address
      high(j) == heap.blocks[j].address + heap.blocks[j].size
  IN /\ low(i) < high(i) /\ heap.base <= low(i) /\ high(i) <= heap.end
     /\ \A j \in DOMAIN heap.blocks \ {i} : low(j) < high(j) => high(j) <= low(i) \/ high(i) <= low(j)

\* With rows of a given number of bytes, a row shows what its bytes hold, and
\* all of it where it has the cells.
RowsAreExact(heap, spans, grid, rowBytes) ==
  LET Holding(row) == {s \in ToSet(spans) : s.start < heap.base + (row + 1) * rowBytes
                                             /\ s.start + s.size > heap.base + row * rowBytes}
      Drawn(row) == {r.index : r \in {x \in ToSet(grid.runs) : x.start \div grid.width = row}}
  IN grid.width > 0 =>
       /\ Tiles(grid)
       /\ \A r \in ToSet(grid.runs) : r.stop <= (r.start \div grid.width + 1) * grid.width
       /\ \A row \in 0..(grid.height - 1) :
            LET there == {s.index : s \in Holding(row)}
            IN Drawn(row) \subseteq there /\ (Cardinality(Holding(row)) <= grid.width => Drawn(row) = there)

\* A fold hides no byte of a used block, says how many bytes it hides, and the
\* bitmap is as tall as its rows, its bands and its legend ask for.
HidesNoUsed(heap, spans, grid, bitmap) ==
  /\ \A f \in {g.fold : g \in ToSet(grid.folds)} :
       /\ \A s \in ToSet(spans) : ~Unused(heap, s) => s.start + s.size <= f.start \/ f.end <= s.start
       /\ f.bytes - (f.end - f.start) \in -1..1
  /\ grid.folds # << >> => Len(bitmap) >= LegendUnits
  /\ \A s \in ToSet(spans) : ~Unused(heap, s) =>
       \E r \in DOMAIN bitmap : bitmap[r] # Band /\ \E k \in DOMAIN bitmap[r] : bitmap[r][k] = s.index
=============================================================================
