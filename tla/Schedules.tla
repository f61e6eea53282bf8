----------------------------- MODULE Schedules -----------------------------
(***************************************************************************)
(* The schedules of mari/all_schedules.c: the type of every cell, and the  *)
(* facts about them that the other modules assume of CellType, NCells and  *)
(* MaxNodes.  Channel offsets are left out.                                *)
(***************************************************************************)
EXTENDS Integers, Sequences, FiniteSets, SequencesExt

\* n uplink cells, and n uplink cells with the shared uplink and the downlink
\* that follow them.
Uplinks(n) == [i \in 1 .. n |-> "U"]
Group(n) == Uplinks(n) \o <<"S", "D">>
Groups(sizes) == FlattenSeq([i \in DOMAIN sizes |-> Group(sizes[i])])

\* Every schedule begins with a beacon on each advertising channel.
Frame(sizes, tail) == <<"B", "B", "B">> \o Groups(sizes) \o Uplinks(tail)

ScheduleTiny == [max_nodes |-> 10, n_cells |-> 17, cells |-> Frame(<<2, 4>>, 4)]

ScheduleMedium ==
    [max_nodes |-> 44, n_cells |-> 67,
     cells |-> Frame(<<2>> \o [i \in 1 .. 9 |-> 4], 6)]

ScheduleBig ==
    [max_nodes |-> 66, n_cells |-> 101,
     cells |-> Frame(<<2>> \o [i \in 1 .. 15 |-> 4], 4)]

ScheduleHuge ==
    [max_nodes |-> 102, n_cells |-> 149,
     cells |-> Frame(<<2>> \o [i \in 1 .. 21 |-> IF i % 2 = 1 THEN 4 ELSE 5], 6)]

AllSchedules == {ScheduleTiny, ScheduleMedium, ScheduleBig, ScheduleHuge}

\* models.h: max_nodes is the number of uplink cells, and the first three cells are
\* beacons.  association.c: a shared uplink is followed by a downlink, so that a join
\* response comes within two slots; the slotframe has an uplink cell right before each
\* of its shared uplinks.
ASSUME SchedulesFit ==
    \A s \in AllSchedules :
        /\ s.n_cells = Len(s.cells)
        /\ s.n_cells <= 149
        /\ s.max_nodes = Cardinality({c \in 1 .. s.n_cells : s.cells[c] = "U"})
        /\ {c \in 1 .. s.n_cells : s.cells[c] = "B"} = 1 .. 3
        /\ \A c \in 1 .. s.n_cells : s.cells[c] = "S" =>
              s.cells[c - 1] = "U" /\ s.cells[(c % s.n_cells) + 1] = "D"
=============================================================================
