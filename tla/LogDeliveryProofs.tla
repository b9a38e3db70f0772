------------------------- MODULE LogDeliveryProofs -------------------------
\* Proofs about LogDelivery, for files of every length: what the abstract
\* specification that IOHandler implements (IOHandler!ImplementsDelivery)
\* promises to the reader of the topic.
EXTENDS LogDelivery, TLAPS

\* The bytes from x up to, and not including, y.
LEMMA Interval ==
    ASSUME NEW x \in Nat, NEW y \in Nat
    PROVE  \A b : b \in x..(y - 1) <=> b \in Nat /\ x <= b /\ b < y
OBVIOUS

\* Where the collector is and where it would begin again.
Places == len \in Nat /\ at \in Nat /\ mark \in Nat /\ mark <= at

\* A step keeps the recorded position behind what was cut.
LEMMA PlacesStep == Places /\ [DNext]_dvars => Places'
<1> SUFFICES ASSUME Places, [DNext]_dvars PROVE Places'
  OBVIOUS
<1>1. CASE Grow BY <1>1 DEF Places, Grow
<1>2. CASE Cut
  <2>1. at' \in Int /\ at' >= at + 1 BY <1>2 DEF Cut, Places
  <2>2. QED BY <1>2, <2>1 DEF Cut, Places
<1>3. CASE Deliver BY <1>3 DEF Places, Deliver
<1>4. CASE Record BY <1>4 DEF Places, Record
<1>5. CASE Stop BY <1>5 DEF Places, Stop
<1>6. CASE Kill BY <1>6 DEF Places, Kill
<1>7. CASE UNCHANGED dvars BY <1>7 DEF Places, dvars
<1>8. QED BY <1>1, <1>2, <1>3, <1>4, <1>5, <1>6, <1>7 DEF DNext

\* A step leaves no byte out: only Cut moves on, over bytes that are then
\* held, and Kill goes back to the recorded position.
LEMMA AtLeastOnceStep ==
    Places /\ AtLeastOnce /\ [DNext]_dvars => AtLeastOnce'
<1> SUFFICES ASSUME Places, AtLeastOnce, [DNext]_dvars PROVE AtLeastOnce'
  OBVIOUS
<1>a. at \in Nat /\ mark \in Nat /\ mark <= at /\ at' \in Nat
  BY PlacesStep DEF Places
<1>b. SUFFICES ASSUME NEW b \in Nat, b < at'
               PROVE  b \in delivered' \cup held' \cup given_up'
  <2>1. \A b : b \in 0..(at' - 1) <=> b \in Nat /\ 0 <= b /\ b < at'
    BY <1>a, Interval
  <2>2. QED BY <2>1 DEF AtLeastOnce
<1>c. b < at => b \in delivered \cup held \cup given_up
  BY <1>a DEF AtLeastOnce
<1>1. CASE Grow BY <1>b, <1>c, <1>1 DEF Grow
<1>2. CASE Cut
  <2>1. b >= at => b \in at..(at' - 1) BY <1>a, <1>b, Interval
  <2>2. b < at \/ b >= at BY <1>a
  <2>3. QED BY <1>2, <1>c, <2>1, <2>2 DEF Cut
<1>3. CASE Deliver BY <1>b, <1>c, <1>3 DEF Deliver
<1>4. CASE Record BY <1>b, <1>c, <1>4 DEF Record
<1>5. CASE Stop BY <1>b, <1>c, <1>5 DEF Stop
<1>6. CASE Kill
  <2>1. b < mark /\ b < at BY <1>a, <1>b, <1>6 DEF Kill
  <2>2. QED BY <1>6, <1>c, <2>1 DEF Kill
<1>7. CASE UNCHANGED dvars BY <1>b, <1>c, <1>7 DEF dvars
<1>8. QED BY <1>1, <1>2, <1>3, <1>4, <1>5, <1>6, <1>7 DEF DNext

\* A collector that keeps to LogDelivery leaves no byte of the file out,
\* however often it is stopped and killed, and whatever the length of the file.
THEOREM AtLeastOnceAlways == DSpec => []AtLeastOnce
<1>1. DInit => Places /\ AtLeastOnce BY DEF DInit, Places, AtLeastOnce
<1>2. QED BY <1>1, PlacesStep, AtLeastOnceStep, PTL DEF DSpec
=============================================================================
