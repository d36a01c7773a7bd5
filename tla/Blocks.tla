---------------------------------- MODULE Blocks -------------------------------
(* How a parallel scan divides a table among its workers (src/parscan.c), and    *)
(* the aggregates each of them computes over its part (src/db.c): pure           *)
(* functions, compared here with what one thread computes over the whole table.  *)
EXTENDS Integers, Sequences, SequencesExt

Seqs(a, b) == [k \in 1..(b - a) |-> a + k - 1]

\* The pages of worker i of n: contiguous blocks in page order, none past the end.
clamp(n, total) == IF n > total THEN total ELSE n
chunk(n, total) == (total + n - 1) \div n

range(i, n, total) ==
    LET hi == Min({i * chunk(n, total), total})
        lo == Min({(i - 1) * chunk(n, total), hi})
    IN  Seqs(lo, hi)

\* The blocks of all workers together are the pages in order, for every size and number.
ASSUME BlocksCover ==
    \A total \in 1..12, n \in 1..6 :
        FlattenSeq([i \in 1..clamp(n, total) |-> range(i, clamp(n, total), total)]) = Seqs(0, total)

--------------------------------------------------------------------------------
(* Aggregates of an INT column.  A cell is <<v>>, or <<>> for NULL; so is a      *)
(* result, which for AVG is the sum and the count it is divided by.              *)

Aggs == {"count_star", "count", "sum", "avg", "min", "max"}

\* Over all rows, by one thread.
compute_cell(agg, cells) ==
    LET vals == FlattenSeq(cells)
        sum == FoldLeft(+, 0, vals)
    IN  CASE agg = "count_star" -> <<Len(cells)>>
          [] agg = "count" -> <<Len(vals)>>
          [] OTHER -> IF vals = <<>> THEN <<>>
                      ELSE CASE agg = "sum" -> <<sum>>
                             [] agg = "avg" -> <<sum, Len(vals)>>
                             [] agg = "min" -> <<Min(ToSet(vals))>>
                             [] agg = "max" -> <<Max(ToSet(vals))>>

\* What a worker has accumulated.
AggPart == [total |-> 0, cnt |-> 0, sum |-> 0, minv |-> 0, maxv |-> 0, seen |-> FALSE]

agg_worker_visit(p, cell) ==
    IF cell = <<>> THEN [p EXCEPT !.total = @ + 1]
    ELSE LET v == cell[1] IN
         [total |-> p.total + 1, cnt |-> p.cnt + 1, sum |-> p.sum + v, seen |-> TRUE,
          minv |-> IF p.seen THEN Min({p.minv, v}) ELSE v,
          maxv |-> IF p.seen THEN Max({p.maxv, v}) ELSE v]

\* The leader adds the parts up; one without a value has no minimum to offer.
Combine(a, p) ==
    [total |-> a.total + p.total, cnt |-> a.cnt + p.cnt, sum |-> a.sum + p.sum, seen |-> a.seen \/ p.seen,
     minv |-> IF ~p.seen THEN a.minv ELSE IF a.seen THEN Min({a.minv, p.minv}) ELSE p.minv,
     maxv |-> IF ~p.seen THEN a.maxv ELSE IF a.seen THEN Max({a.maxv, p.maxv}) ELSE p.maxv]

Finalize(agg, parts) ==
    LET all == FoldLeft(Combine, AggPart, parts) IN
    CASE agg = "count_star" -> <<all.total>>
      [] agg = "count" -> <<all.cnt>>
      [] OTHER -> IF ~all.seen THEN <<>>
                  ELSE CASE agg = "sum" -> <<all.sum>>
                         [] agg = "avg" -> <<all.sum, all.cnt>>
                         [] agg = "min" -> <<all.minv>>
                         [] agg = "max" -> <<all.maxv>>

\* The parts of n workers over a table with one row in each page; a worker beyond the
\* number of pages is not started and its part is as it was allocated.
Parts(cells, n) ==
    LET nw == clamp(n, Len(cells)) IN
    [i \in 1..n |-> IF i > nw THEN AggPart
                    ELSE LET pages == range(i, nw, Len(cells))
                         IN  FoldLeft(agg_worker_visit, AggPart,
                                      [k \in DOMAIN pages |-> cells[pages[k] + 1]])]

\* However the rows fall to the workers, NULLs among them or nothing else, the leader's
\* result is the one of a single thread (try_parallel_partial_aggregate, compute_cell).
ASSUME PartialAggregates ==
    \A len \in 1..5, n \in 1..4 : \A cells \in [1..len -> {<<>>, <<-2>>, <<0>>, <<3>>}] :
        \A agg \in Aggs : Finalize(agg, Parts(cells, n)) = compute_cell(agg, cells)
================================================================================
