---------------------------- MODULE LogDelivery ----------------------------
(***************************************************************************)
(* What the collector of one log file promises: its bytes are delivered in *)
(* pieces cut one after the other, at least once.  Only what was cut and   *)
(* not yet delivered when the collector stops, or was killed, can be given *)
(* up, and a collector that was killed continues at the position it        *)
(* recorded, which is never beyond what was cut.                           *)
(***************************************************************************)
EXTENDS Integers

CONSTANT MaxLen \* bound: bytes of the file

VARIABLES
    len,       \* bytes in the file
    at,        \* how far the file was cut
    mark,      \* the position a new collector begins at
    held,      \* the bytes that were cut and not yet delivered
    delivered, \* the bytes that were delivered
    given_up   \* the bytes that were given up

dvars == <<len, at, mark, held, delivered, given_up>>

DInit ==
    /\ len = 0 /\ at = 0 /\ mark = 0
    /\ held = {} /\ delivered = {} /\ given_up = {}

\* The file grows.
Grow ==
    /\ len < MaxLen
    /\ len' = len + 1
    /\ UNCHANGED <<at, mark, held, delivered, given_up>>

\* The next piece is cut, directly behind the last one.
Cut ==
    /\ at' \in (at + 1)..len
    /\ held' = held \cup at..(at' - 1)
    /\ UNCHANGED <<len, mark, delivered, given_up>>

\* Some of the bytes that are held are delivered.
Deliver ==
    /\ held' \in SUBSET held
    /\ delivered' = delivered \cup (held \ held')
    /\ UNCHANGED <<len, at, mark, given_up>>

\* The position is recorded: all that was cut.
Record ==
    /\ mark' = at
    /\ UNCHANGED <<len, at, held, delivered, given_up>>

\* The collector is stopped, and what it holds is given up.
Stop ==
    /\ mark' = at
    /\ held' = {}
    /\ given_up' = given_up \cup held
    /\ UNCHANGED <<len, at, delivered>>

\* The collector is killed: it begins again at the recorded position, and
\* gives up only what it held before that.
Kill ==
    /\ at' = mark
    /\ held' = {}
    /\ given_up' = given_up \cup {b \in held : b < mark}
    /\ UNCHANGED <<len, mark, delivered>>

DNext == Grow \/ Cut \/ Deliver \/ Record \/ Stop \/ Kill

DSpec == DInit /\ [][DNext]_dvars

\* Every byte before the point the collector has reached was delivered, is
\* held, or was given up.
AtLeastOnce == 0..(at - 1) \subseteq delivered \cup held \cup given_up
=============================================================================
