-------------------------- MODULE TransparentLogo --------------------------
(***************************************************************************)
(* The transparent variant of a logo (logo_generation.py:474-616): the     *)
(* background is flooded from the edges of the image, for one threshold    *)
(* after another until the share of what was reached makes sense, and what *)
(* was reached is made transparent.  A pixel is known by its distance to   *)
(* the nearest of the colours sampled at eight points of the edges.        *)
(***************************************************************************)
EXTENDS Integers, FiniteSets, Sequences, SequencesExt

CONSTANTS
  Width, Height,
  Fraction,       \* the least share that is removed is 1/Fraction; the code has 0.02
  Areas,          \* bound: disjoint sets of pixels of one colour; others are sampled colours
  Distances,      \* bound: the distances of the areas from the sampled colours
  Spreads         \* bound: the distances of the sampled colours; 0: there is one

Pixels == (0..Width - 1) \X (0..Height - 1)

\* The eight points whose colours are taken for the background.
Samples ==
  {0, Width - 1, Width \div 2} \X {0, Height - 1} \cup {0, Width - 1} \X {Height \div 2}

ASSUME ImageAssumption ==
  /\ Width \in Nat \ {0} /\ Height \in Nat \ {0}
  /\ Fraction \in Nat \ {0}
  /\ UNION Areas \subseteq Pixels \ Samples
  /\ Distances \subseteq 0..255 /\ Spreads \subseteq 0..255

VARIABLES
  distance,       \* the image: max-channel distance to the nearest seed colour
  spread,         \* the greatest distance between two seed colours
  opaque,         \* no pixel of the image is transparent
  tried,          \* how many thresholds have been tried before this one
  mask, queue, removed,
  at,             \* "fill", then "done"
  erased          \* the pixels whose alpha is set to 0

vars == <<distance, spread, opaque, tried, mask, queue, removed, at, erased>>

Least(a, b) == IF a < b THEN a ELSE b
Greatest(a, b) == IF a < b THEN b ELSE a

\* _candidate_background_thresholds
Thresholds(width) ==
  LET base == Greatest(20, Least(42, width + 10))
  IN  IF width = 0 THEN <<20, 32, 48>>
                   ELSE <<base, Least(64, base + 12), Least(84, base + 24)>>

Border == {p \in Pixels : p[1] \in {0, Width - 1} \/ p[2] \in {0, Height - 1}}

Neighbours(p) ==
  {<<p[1] - 1, p[2]>>, <<p[1] + 1, p[2]>>, <<p[1], p[2] - 1>>, <<p[1], p[2] + 1>>} \cap Pixels

\* _matches_background
Background(n) == {p \in Pixels : distance[p] <= Thresholds(spread)[n + 1]}

Before(p, q) == p[2] < q[2] \/ (p[2] = q[2] /\ p[1] < q[1])

\* Pixels that are enqueued together: row after row.
InOrder(pixels) ==
  [i \in 1..Cardinality(pixels) |->
     CHOOSE p \in pixels : Cardinality({q \in pixels : Before(q, p)}) = i - 1]

\* Mutant of Fill: the mask of the threshold before is used further.
FillFurther(n) ==
  /\ mask' = mask \cup (Border \cap Background(n))
  /\ queue' = InOrder((Border \cap Background(n)) \ mask)
  /\ removed' = removed

\* The edges are enqueued first, each pixel once.
Fill(n) ==
  /\ mask' = Border \cap Background(n)
  /\ queue' = InOrder(Border \cap Background(n))
  /\ removed' = 0

Init ==
  /\ \E colour \in [Areas -> Distances \cup {0}] :
       distance = [p \in Pixels |->
         IF p \in UNION Areas THEN colour[CHOOSE area \in Areas : p \in area] ELSE 0]
  /\ spread \in Spreads /\ opaque \in BOOLEAN
  /\ tried = 0
  /\ mask = Border \cap Background(0)
  /\ queue = InOrder(Border \cap Background(0))
  /\ removed = 0
  /\ at = IF opaque THEN "fill" ELSE "done"
  /\ erased = {}

\* The neighbours of a pixel that are background and not in the mask yet.
Reached(p) == (Neighbours(p) \cap Background(tried)) \ mask

\* One turn of the loop of _build_background_mask.
Grow ==
  /\ at = "fill" /\ queue # <<>>
  /\ LET reached == Reached(Head(queue))
     IN  /\ mask' = mask \cup reached
         /\ queue' = Tail(queue) \o InOrder(reached)
  /\ removed' = removed + 1
  /\ UNCHANGED <<distance, spread, opaque, tried, at, erased>>

\* 1 / Fraction <= removal_ratio < 1.0
Fits(count) == count * Fraction >= Cardinality(Pixels) /\ count < Cardinality(Pixels)

\* Mutant of Erase: the flood ends as soon as it has reached enough.
EraseEarly ==
  /\ at = "fill" /\ Fits(removed)
  /\ erased' = mask /\ at' = "done"
  /\ UNCHANGED <<distance, spread, opaque, tried, mask, queue, removed>>

\* The mask is used ...
Erase ==
  /\ at = "fill" /\ queue = <<>> /\ Fits(removed)
  /\ erased' = mask /\ at' = "done"
  /\ UNCHANGED <<distance, spread, opaque, tried, mask, queue, removed>>

\* ... or the next threshold is tried ...
TryNext ==
  /\ at = "fill" /\ queue = <<>> /\ ~Fits(removed) /\ tried < 2
  /\ tried' = tried + 1
  /\ Fill(tried + 1)
  /\ UNCHANGED <<distance, spread, opaque, at, erased>>

\* ... or, after the last one, the image stays as it is.
LeaveOpaque ==
  /\ at = "fill" /\ queue = <<>> /\ ~Fits(removed) /\ tried = 2
  /\ at' = "done"
  /\ UNCHANGED <<distance, spread, opaque, tried, mask, queue, removed, erased>>

Next == Grow \/ Erase \/ TryNext \/ LeaveOpaque

Spec == Init /\ [][Next]_vars

-----------------------------------------------------------------------------
(* Properties *)

\* The types; every pixel of the mask is counted once, when it leaves the queue.
TypeOK ==
  /\ tried \in 0..2
  /\ mask \subseteq Pixels /\ erased \subseteq Pixels
  /\ queue \in Seq(mask) /\ IsInjective(queue)
  /\ removed + Len(queue) = Cardinality(mask)

\* The pixels connected with the border through background: a reference that
\* widens the border as often as there are pixels.
Connected(n) ==
  LET wide[i \in 0..Cardinality(Pixels)] ==
        IF i = 0 THEN Border \cap Background(n)
        ELSE wide[i - 1] \cup {p \in Background(n) : Neighbours(p) \cap wide[i - 1] # {}}
  IN  wide[Cardinality(Pixels)]

\* What is erased is the connected background of the first threshold for which it
\* is neither next to nothing nor the whole image; if there is none, nothing is.
ErasesFirstFit ==
  at = "done" /\ opaque =>
    LET fit == {n \in 0..2 : Fits(Cardinality(Connected(n)))}
    IN  IF fit = {} THEN erased = {}
                    ELSE erased = Connected(CHOOSE n \in fit : \A k \in fit : n <= k)

\* Something of the logo is left, whatever the colours are.
LogoRemains == erased # Pixels

\* Whatever the image, only the background goes, and something is left.
Inv == TypeOK /\ ErasesFirstFit /\ LogoRemains

\* The loop over a queue is a flood.
Flooding ==
  INSTANCE Flood WITH
    Cells <- Pixels,
    Border <- Border,
    Adjacent <- {pair \in Pixels \X Pixels : pair[2] \in Neighbours(pair[1])},
    open <- Background(tried),
    marked <- mask,
    frontier <- {queue[i] : i \in DOMAIN queue}

FloodSpec == Flooding!Spec

=============================================================================
