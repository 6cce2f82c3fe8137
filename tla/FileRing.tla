------------------------------ MODULE FileRing ------------------------------
(***************************************************************************)
(* The ring of picture files that worker_thread() and                      *)
(* maintain_ringbuffer() of output_file keep in a folder, over restarts of *)
(* the program with other -s and -e options.                               *)
(*                                                                         *)
(* A file is its name (the local time in seconds and the counter, which is *)
(* how alphasort() orders the names) and the number it was created under,  *)
(* which the code does not know.  A crash may fall between any two steps.  *)
(***************************************************************************)
EXTENDS Integers, FiniteSets

CONSTANTS
    Sizes,      \* values of -s; negative: the option was not given
    Exceeds,    \* values of -e
    MaxCreated, \* files created (bound)
    MaxClock,   \* seconds (bound)
    Shift       \* the local time may go back, at the end of the summer time

ASSUME RingAssumption == /\ Sizes \subseteq Int /\ Exceeds \subseteq Nat
                         /\ MaxCreated \in Nat /\ MaxClock \in Nat
                         /\ Shift \in BOOLEAN

Hour == 10   \* longer than MaxClock, as an hour is longer than the filling of a ring

VARIABLES
    size,       \* ringbuffer_size
    exceed,     \* ringbuffer_exceed
    linkFile,   \* linkFileName is set
    disk,       \* the files of the folder that check_for_filename() accepts
    link,       \* the file that linkFileName names, or 0
    clock,      \* seconds since the program was first started
    zone,       \* seconds the local time is ahead of the clock
    counter,    \* counter of worker_thread()
    created,    \* files created so far
    doomed,     \* entries of namelist that are still to be deleted
    stuck,      \* the last maintenance could not read the folder or delete a file
    ringPc          \* control point of worker_thread()

ringVars == <<size, exceed, linkFile, disk, link, clock, zone, counter, created, doomed, stuck, ringPc>>

Files == [time : 0 .. (MaxClock + Hour), number : 0 .. MaxCreated, serial : 1 .. MaxCreated]

RingInit ==
    /\ size \in Sizes /\ exceed \in Exceeds /\ linkFile \in BOOLEAN
    /\ disk = {} /\ link = 0
    /\ clock = 0 /\ zone = Hour
    /\ counter = 0 /\ created = 0
    /\ doomed = {} /\ stuck = FALSE
    /\ ringPc = "wait"

-----------------------------------------------------------------------------
(* Names *)

\* alphasort(): by the time, then by the counter.
Before(f, g) == \/ f.time < g.time
                \/ f.time = g.time /\ f.number < g.number

\* Mutant: one file too many.
OldestOneMore(n) ==
    {f \in disk : Cardinality({g \in disk : Before(g, f)}) <= n}

\* The first n entries of the sorted namelist.
Oldest(n) ==
    {f \in disk : Cardinality({g \in disk : Before(g, f)}) < n}

\* The name made from the local time and the counter.
NewFile == [time |-> clock + zone, number |-> counter, serial |-> created + 1]

\* O_CREAT | O_TRUNC: a file of that name is replaced.
Create == disk' = {f \in disk : Before(f, NewFile) \/ Before(NewFile, f)} \cup {NewFile}

-----------------------------------------------------------------------------
(* worker_thread() *)

\* A picture is written under a new name.
Save ==
    /\ ringPc = "wait" /\ created < MaxCreated
    /\ Create /\ created' = created + 1
    /\ counter' = counter + 1
    /\ ringPc' = "link"
    /\ UNCHANGED <<size, exceed, linkFile, link, clock, zone, doomed, stuck>>

\* write() fails: the thread returns and leaves the file behind.
SaveFails ==
    /\ ringPc = "wait" /\ created < MaxCreated
    /\ Create /\ created' = created + 1
    /\ counter' = counter + 1
    /\ ringPc' = "off"
    /\ UNCHANGED <<size, exceed, linkFile, link, clock, zone, doomed, stuck>>

\* Without -l.
NoLink ==
    /\ ringPc = "link" /\ ~linkFile
    /\ ringPc' = "ring"
    /\ UNCHANGED <<size, exceed, linkFile, disk, link, clock, zone, counter, created, doomed, stuck>>

\* The old link is removed.
Unlink ==
    /\ ringPc = "link" /\ linkFile
    /\ link' = 0
    /\ ringPc' = "linking"
    /\ UNCHANGED <<size, exceed, linkFile, disk, clock, zone, counter, created, doomed, stuck>>

\* link() to the new file; it fails if the name is in use, and its failure is ignored.
Link ==
    /\ ringPc = "linking"
    /\ link' \in (IF link = 0 THEN {0, created} ELSE {link})
    /\ ringPc' = "ring"
    /\ UNCHANGED <<size, exceed, linkFile, disk, clock, zone, counter, created, doomed, stuck>>

\* Not every picture is followed by a maintenance.
Due == exceed <= 0 \/ counter = 1 \/ counter % (exceed + 1) = 0

\* The ring is left as it is.
NotDue ==
    /\ ringPc = "ring" /\ (~Due \/ size < 0)
    /\ ringPc' = "wait"
    /\ UNCHANGED <<size, exceed, linkFile, disk, link, clock, zone, counter, created, doomed, stuck>>

\* scandir() fails.
ScanFails ==
    /\ ringPc = "ring" /\ Due /\ size >= 0
    /\ stuck' = TRUE
    /\ ringPc' = "wait"
    /\ UNCHANGED <<size, exceed, linkFile, disk, link, clock, zone, counter, created, doomed>>

\* maintain_ringbuffer() lists the folder.
Scan ==
    /\ ringPc = "ring" /\ Due /\ size >= 0
    /\ doomed' = Oldest(Cardinality(disk) - size)
    /\ stuck' = FALSE
    /\ ringPc' = "delete"
    /\ UNCHANGED <<size, exceed, linkFile, disk, link, clock, zone, counter, created>>

\* Mutant: the loop does not advance.
DeleteNotAdvanced ==
    /\ ringPc = "delete"
    /\ \E f \in doomed :
          /\ \A g \in doomed \ {f} : Before(f, g)
          /\ disk' = disk \ {f}
    /\ UNCHANGED <<size, exceed, linkFile, link, clock, zone, counter, created, doomed, stuck, ringPc>>

\* The first of the entries is deleted, or unlink() fails and is only reported.
Delete ==
    /\ ringPc = "delete"
    /\ \E f \in doomed :
          /\ \A g \in doomed \ {f} : Before(f, g)
          /\ doomed' = doomed \ {f}
          /\ \/ disk' = disk \ {f} /\ UNCHANGED stuck
             \/ stuck' = TRUE /\ UNCHANGED disk
    /\ UNCHANGED <<size, exceed, linkFile, link, clock, zone, counter, created, ringPc>>

\* The loop is over.
Deleted ==
    /\ ringPc = "delete" /\ doomed = {}
    /\ ringPc' = "wait"
    /\ UNCHANGED <<size, exceed, linkFile, disk, link, clock, zone, counter, created, doomed, stuck>>

\* The program is killed or stopped, or open() failed, localtime() and strftime() included.
Crash ==
    /\ ringPc # "off"
    /\ doomed' = {} /\ ringPc' = "off"
    /\ UNCHANGED <<size, exceed, linkFile, disk, link, clock, zone, counter, created, stuck>>

\* The program is started again, a second later at the earliest, with any options.
Restart ==
    /\ ringPc = "off" /\ clock < MaxClock
    /\ clock' = clock + 1
    /\ size' \in Sizes /\ exceed' \in Exceeds /\ linkFile' \in BOOLEAN
    /\ counter' = 0
    /\ ringPc' = "wait"
    /\ UNCHANGED <<disk, link, zone, created, doomed, stuck>>

\* A second passes.
Tick ==
    /\ clock < MaxClock
    /\ clock' = clock + 1
    /\ UNCHANGED <<size, exceed, linkFile, disk, link, zone, counter, created, doomed, stuck, ringPc>>

\* The summer time ends.
SetBack ==
    /\ Shift /\ zone = Hour
    /\ zone' = 0
    /\ UNCHANGED <<size, exceed, linkFile, disk, link, clock, counter, created, doomed, stuck, ringPc>>

RingNext == \/ Save \/ SaveFails \/ NoLink \/ Unlink \/ Link
        \/ NotDue \/ ScanFails \/ Scan \/ Delete \/ Deleted
        \/ Crash \/ Restart \/ Tick \/ SetBack

RingSpec == RingInit /\ [][RingNext]_ringVars

-----------------------------------------------------------------------------
(* Properties *)

\* Types of the folder and of the worker's state.
RingTypeOK ==
    /\ size \in Sizes /\ exceed \in Exceeds /\ linkFile \in BOOLEAN
    /\ disk \subseteq Files /\ doomed \subseteq disk
    /\ link \in 0 .. MaxCreated /\ created \in 0 .. MaxCreated /\ counter \in 0 .. MaxCreated
    /\ clock \in 0 .. MaxClock /\ zone \in {0, Hour}
    /\ stuck \in BOOLEAN /\ linkFile \in BOOLEAN
    /\ ringPc \in {"wait", "link", "linking", "ring", "delete", "off"}

\* Between two pictures the folder holds no more than the "size to size + exceed" files that
\* output_init() announces, also after a restart with a smaller ring, unless the last
\* maintenance could not do its work.
RingBounded ==
    (ringPc = "wait" /\ counter > 0 /\ size >= 0 /\ ~stuck) => Cardinality(disk) <= size + exceed

\* As long as the local time does not go back, maintain_ringbuffer() deletes a file only when
\* there are "size" more recent ones, over crashes and restarts.
OnlyOldestDeleted ==
    [][zone = Hour =>
        \A f \in disk \ disk' : Cardinality({g \in disk' : g.serial > f.serial}) >= size]_ringVars

\* With -l the fixed name never stays with an older picture: it names the one saved last or,
\* if link() failed, none.
LinkNotStale ==
    (linkFile /\ counter > 0 /\ ringPc \in {"ring", "delete", "wait"}) => link \in {0, created}

\* The folder of output_file holds the ring that was asked for, over crashes and restarts: bounded, without a stale
\* link, and short only of its oldest files.
RingKept == [](RingBounded /\ LinkNotStale) /\ OnlyOldestDeleted
=============================================================================
