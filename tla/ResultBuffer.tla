---------------------------- MODULE ResultBuffer ----------------------------
(***************************************************************************)
(* The results of a measure (monl/result_buffer.cpp): statistics kept      *)
(* sample by sample, and a circular buffer for those of the last samples,  *)
(* which can be resized at any time; all of them are published.            *)
(*                                                                         *)
(* Samples are integers and quotients exact fractions: rounding is left    *)
(* out.  The measure is running and local.                                 *)
(***************************************************************************)
EXTENDS Integers, Sequences, SequencesExt, FiniteSetsExt

CONSTANTS
  NAN,          \* no number
  Samples,      \* the values of samples
  WindowSizes,  \* the sizes a buffer may have (P_WINDOW_SIZE / tx_every)
  PublishingRate, \* P_PUBLISHING_RATE, in samples
  MaxSamples    \* bound on the samples between two initialisations

ResultBufferAssumption ==
  /\ Samples \subseteq Int
  /\ WindowSizes \subseteq Nat \ {0} /\ WindowSizes # {}
  /\ PublishingRate \in Nat \ {0} /\ MaxSamples \in Nat
  /\ NAN \notin Int \cup (Int \X Int)

VARIABLES
  circular_buffer, size, pos, n_samples,  \* the window
  samples,      \* the samples since init
  stats,        \* the statistics kept on the fly
  new_data,     \* a sample came since the last publication
  period,       \* history: the samples since the last publication or init
  history,      \* history: the samples since init
  window,       \* history: the samples the window should hold, oldest first
  zero          \* P_INIT_NAN_ZERO when init ran: statistics start as 0

buffer == <<circular_buffer, size, pos, n_samples>>
vars == <<buffer, samples, stats, new_data, period, history, window, zero>>

isnan(x) == x = NAN

\* Fractions <<n, d>> with d > 0; AVG and VAR are fractions.
Plus(x, y) == <<x[1] * y[2] + y[1] * x[2], x[2] * y[2]>>
Times(x, y) == <<x[1] * y[1], x[2] * y[2]>>
Same(x, y) == x[1] * y[2] = y[1] * x[2]

TypeOK ==
  /\ size \in WindowSizes /\ pos \in 0 .. size - 1 /\ n_samples \in 0 .. size
  /\ circular_buffer \in [0 .. size - 1 -> Samples \cup {NAN}]
  /\ samples \in 0 .. MaxSamples
  /\ new_data \in BOOLEAN /\ zero \in BOOLEAN
  /\ {history, window, period} \subseteq Seq(Samples)

Empty(s) == [i \in 0 .. s - 1 |-> NAN]

Fresh(z) ==
  LET none == IF z THEN 0 ELSE NAN
  IN  [LAST |-> none, SUM |-> none, PERIOD_SUM |-> none, MIN |-> none, MAX |-> none,
       WIN_SUM |-> none,
       AVG |-> IF z THEN <<0, 1>> ELSE NAN, VAR |-> IF z THEN <<0, 1>> ELSE NAN]

Init ==
  /\ size \in WindowSizes
  /\ circular_buffer = Empty(size)
  /\ pos = 0 /\ n_samples = 0 /\ samples = 0
  /\ stats = Fresh(FALSE)
  /\ new_data = FALSE
  /\ period = <<>> /\ history = <<>> /\ window = <<>>
  /\ zero = FALSE

-----------------------------------------------------------------------------
(* The window.                                                              *)

Added(sum, r) == IF isnan(sum) THEN r ELSE sum + r

\* Buffer b and WIN_SUM b.sum after newSampleWin.
newSampleWin(b, r) ==
  LET full == b.n_samples >= b.size
      rest == IF full THEN b.sum - b.cells[b.pos] ELSE b.sum
  IN  [b EXCEPT !.n_samples = IF full THEN @ ELSE @ + 1,
                !.sum = Added(rest, r),
                !.cells[b.pos] = r,
                !.pos = (@ + 1) % b.size]

Current == [cells |-> circular_buffer, size |-> size, pos |-> pos,
            n_samples |-> n_samples, sum |-> stats.WIN_SUM]

SetTo(b) ==
  /\ circular_buffer' = b.cells
  /\ size' = b.size
  /\ pos' = b.pos
  /\ n_samples' = b.n_samples

\* Mutation of Resized: the oldest samples are kept.
ResizedOldest(s) ==
  LET kept == Min({s, n_samples})
      old(i) == circular_buffer[(pos - n_samples + i - 1 + size) % size]
  IN  FoldLeft(newSampleWin,
               [cells |-> Empty(s), size |-> s, pos |-> 0, n_samples |-> 0, sum |-> 0],
               [i \in 1 .. kept |-> old(i)])

\* The newest samples, as many as fit, are put into the new buffer one by one.
Resized(s) ==
  LET kept == Min({s, size, n_samples})
      old(i) == circular_buffer[(pos - kept + i - 1 + size) % size]
  IN  FoldLeft(newSampleWin,
               [cells |-> Empty(s), size |-> s, pos |-> 0, n_samples |-> 0, sum |-> 0],
               [i \in 1 .. kept |-> old(i)])

\* What is left of sequence s when only n elements at its end are kept.
Newest(s, n) == SubSeq(s, Len(s) - Min({n, Len(s)}) + 1, Len(s))

resizeBuffer(s) ==
  /\ s # size
  /\ SetTo(Resized(s))
  /\ stats' = [stats EXCEPT !.WIN_SUM = Resized(s).sum]
  /\ window' = Newest(window, s)
  /\ UNCHANGED <<samples, new_data, period, history, zero>>

-----------------------------------------------------------------------------
(* Samples and publications.                                                *)

init(z) ==
  /\ n_samples' = 0 /\ samples' = 0 /\ pos' = 0
  /\ stats' = Fresh(z)
  /\ circular_buffer' = Empty(size)
  /\ period' = <<>> /\ history' = <<>> /\ window' = <<>>
  /\ zero' = z
  /\ UNCHANGED <<size, new_data>>

\* The statistics after sample r, the n-th.
WithSample(s, r, n) ==
  LET sum == Times(<<n - 1, 1>>, IF isnan(s.AVG) THEN <<0, 1>> ELSE s.AVG)
      avg == Times(Plus(sum, <<r, 1>>), <<1, n>>)
      off == Plus(<<r, 1>>, Times(<<-1, 1>>, avg))
  IN  [s EXCEPT
         !.LAST = r,
         !.SUM = Added(@, r),
         !.PERIOD_SUM = Added(@, r),
         !.AVG = avg,
         !.VAR = IF n < 2 THEN <<0, 1>>
                 ELSE Plus(Times(@, <<n - 2, n - 1>>),
                           Times(<<n, (n - 1) * (n - 1)>>, Times(off, off))),
         !.MIN = IF isnan(@) \/ r < @ THEN r ELSE @,
         !.MAX = IF isnan(@) \/ r > @ THEN r ELSE @]

\* Mutation of Published: the period starts again though nothing was published.
PublishedAnyway(s, news, ready) == IF news THEN [s EXCEPT !.PERIOD_SUM = NAN] ELSE s

\* publishResults: it publishes nothing without news, nor when it is not ready,
\* without a name to publish under or a local address; but the news is used up.
Published(s, news, ready) ==
  IF news /\ ready THEN [s EXCEPT !.PERIOD_SUM = NAN] ELSE s

newSample(r, ready) ==
  /\ samples < MaxSamples
  /\ LET b == newSampleWin(Current, r)
         s == [WithSample(stats, r, samples + 1) EXCEPT !.WIN_SUM = b.sum]
         due == (samples + 1) % PublishingRate = 0
     IN  /\ SetTo(b)
         /\ samples' = samples + 1
         /\ stats' = IF due THEN Published(s, TRUE, ready) ELSE s
         /\ new_data' = ~due
         /\ period' = IF due /\ ready THEN <<>> ELSE Append(period, r)
  /\ history' = Append(history, r)
  /\ window' = Newest(Append(window, r), size)
  /\ UNCHANGED zero

\* The publication at a timer, at a new name or when the measure stops.
publishResults(ready) ==
  /\ new_data
  /\ stats' = Published(stats, new_data, ready)
  /\ new_data' = FALSE
  /\ period' = IF ready THEN <<>> ELSE period
  /\ UNCHANGED <<buffer, samples, history, window, zero>>

\* The statistics computed when they are published: the last n_samples cells.
updateStats ==
  LET cell(i) == circular_buffer[(pos - i + size) % size]
      cells == {cell(i) : i \in 1 .. n_samples}
      squares == FoldLeft(+, 0, [i \in 1 .. n_samples |->
                   (stats.WIN_SUM - n_samples * cell(i)) * (stats.WIN_SUM - n_samples * cell(i))])
  IN  [WIN_AVG |-> <<stats.WIN_SUM, n_samples>>,
       WIN_MIN |-> Min(cells \cup {stats.LAST}),
       WIN_MAX |-> Max(cells \cup {stats.LAST}),
       WIN_VAR |-> IF n_samples > 1
                   THEN <<squares, n_samples * n_samples * (n_samples - 1)>> ELSE NAN]

Next ==
  \/ \E r \in Samples, ready \in BOOLEAN : newSample(r, ready)
  \/ \E ready \in BOOLEAN : publishResults(ready)
  \/ \E s \in WindowSizes : resizeBuffer(s)
  \/ \E z \in BOOLEAN : init(z)

Spec == Init /\ [][Next]_vars

-----------------------------------------------------------------------------
(* Properties.                                                              *)

Total(s) == FoldLeft(+, 0, s)
Squares(s) == FoldLeft(+, 0, [i \in DOMAIN s |-> s[i] * s[i]])
\* The sample variance, from its definition.
Variance(s) == <<Len(s) * Squares(s) - Total(s) * Total(s), Len(s) * (Len(s) - 1)>>
Bounds(s) == ToSet(s) \cup (IF zero THEN {0} ELSE {})

\* The recursive statistics are those of all the samples since init, and PERIOD_SUM
\* that of the samples not yet published, whatever resizes, re-initialisations and
\* failed publications came in between.
StatsOfSamples ==
  history # <<>> =>
    /\ stats.SUM = Total(history)
    /\ Same(stats.AVG, <<Total(history), Len(history)>>)
    /\ Len(history) > 1 => Same(stats.VAR, Variance(history))
    /\ stats.MIN = Min(Bounds(history)) /\ stats.MAX = Max(Bounds(history))
    /\ stats.PERIOD_SUM = IF period = <<>> THEN NAN ELSE Total(period)

\* The window statistics are those of the last samples: as many as every size the
\* buffer had since could hold.
StatsOfWindow ==
  window # <<>> =>
    /\ n_samples = Len(window)
    /\ stats.WIN_SUM = Total(window)
    /\ updateStats.WIN_MIN = Min(ToSet(window)) /\ updateStats.WIN_MAX = Max(ToSet(window))
    /\ n_samples > 1 => Same(updateStats.WIN_VAR, Variance(window))
=============================================================================
