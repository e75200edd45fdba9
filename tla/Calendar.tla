-------------------------------- MODULE Calendar --------------------------------
(***************************************************************************)
(* The calendar of ObraCerta's professionals: schedule_blocks, as          *)
(* AvailabilityService and its repository use them.  A block is the window *)
(* of one booking, [inicio, inicio + duration).  The operators are         *)
(* functions of the set of blocks; Booking holds it in a variable.         *)
(*                                                                         *)
(* Blocks without a booking are left out: no code creates them.            *)
(***************************************************************************)
EXTENDS Naturals

CONSTANT DEFAULT_SERVICE_DURATION_HOURS

ASSUME DurationAssumption == DEFAULT_SERVICE_DURATION_HOURS \in Nat \ {0}

Block(Professionals, BookingIds, Dates) ==
  [professional : Professionals, booking : BookingIds, inicio : Dates]

\* Two windows of serviceBlockWindow overlap; touching is no overlap.
Overlap(s, t) ==
  /\ s < t + DEFAULT_SERVICE_DURATION_HOURS
  /\ t < s + DEFAULT_SERVICE_DURATION_HOURS

\* conflictsWith: the check made before blocking.
hasConflict(blocks, professional, date) ==
  \E k \in blocks : k.professional = professional /\ Overlap(k.inicio, date)

\* Mutated: schedule_blocks without its exclusion constraint.
noExclusion(blocks, professional, date) == TRUE

\* schedule_blocks_booking_no_overlap lets the block be inserted.
exclusionAllows(blocks, professional, date) ==
  \A k \in blocks : k.professional = professional => ~Overlap(k.inicio, date)

createBlock(blocks, professional, booking, date) ==
  blocks \cup {[professional |-> professional, booking |-> booking, inicio |-> date]}

deleteBlocksForBooking(blocks, booking) == {k \in blocks : k.booking # booking}

================================================================================
