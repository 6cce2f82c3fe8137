----------------------------- MODULE UvcControls -----------------------------
(***************************************************************************)
(* How input_uvc learns the controls of the camera before it starts:       *)
(* initDynCtrls() teaches the driver the extension controls of some        *)
(* Logitech cameras, enumerateControls() builds in_parameters[] from what  *)
(* the driver offers, and send_input_JSON() shows the list to clients.     *)
(* What the driver was taught survives the program.                        *)
(*                                                                         *)
(* Controls are numbered in the order of their V4L2 ids: the standard      *)
(* ones, the private ones, then the extension controls.                    *)
(***************************************************************************)
EXTENDS Integers, Sequences, FiniteSets, FiniteSetsExt, Functions

CONSTANTS
    UcCameras,      \* sets of controls a camera may have of its own
    UcMaxFaults     \* system calls and allocations that fail, at most

Standard == 1 .. 3       \* V4L2_CID_BASE .. V4L2_CID_LASTP1 - 1
PrivateBase == 11        \* V4L2_CID_PRIVATE_BASE
Extended == 21           \* the first id of another class than V4L2_CTRL_CLASS_USER
MenuControl == 2         \* the control with a menu
MenuItems == 0 .. 2      \* its ctrl->minimum .. ctrl->maximum
Jpeg == 99               \* "JPEG quality", not of the driver

\* The extension controls, with their size in bytes.
xu_ctrls ==
    <<[selector |-> "relative", size |-> 4], [selector |-> "reset", size |-> 1], [selector |-> "focus", size |-> 6],
      [selector |-> "color", size |-> 1], [selector |-> "raw", size |-> 1], [selector |-> "led", size |-> 3]>>

\* The V4L2 controls they are mapped to: some bits of one of them.
Mapping(id, selector, size, offset) == [id |-> id, selector |-> selector, size |-> size, offset |-> offset]
PanReset == 23
TiltReset == 24
PantiltReset == 25
xu_mappings ==
    <<Mapping(21, "relative", 16, 0), Mapping(22, "relative", 16, 16), Mapping(PanReset, "reset", 1, 0),
      Mapping(TiltReset, "reset", 1, 1), Mapping(PantiltReset, "reset", 8, 0), Mapping(26, "focus", 8, 0),
      Mapping(27, "led", 8, 0), Mapping(28, "led", 8, 16), Mapping(29, "color", 8, 0), Mapping(30, "raw", 8, 0)>>

Selectors == {xu_ctrls[i].selector : i \in DOMAIN xu_ctrls}

VARIABLES
    ucCamera,     \* own, has: its controls; next: the driver knows NEXT_CTRL; items: the menu items it names;
                  \* unreadable: controls without a value; jpeg: the quality, 0 when it cannot be set
    ucAdded,      \* extension controls the driver knows
    ucMapped,     \* mappings it knows
    ucPc,         \* where input_init() is
    ucAt,         \* the next entry of a table, or the id asked for
    ucNull,       \* in_parameters is NULL
    ucRoom,       \* the elements it has room for
    ucList,       \* the elements written, with parametercount their number
    ucOutside,    \* whether one was written outside of the array
    ucGarbage,    \* whether a client was sent memory that was never written
    ucFaults

ucVars == <<ucCamera, ucAdded, ucMapped, ucPc, ucAt, ucNull, ucRoom, ucList, ucOutside, ucGarbage, ucFaults>>

\* The driver is as it was when the camera was plugged in, or as an earlier run of the program left it.
UcInit ==
    /\ ucCamera \in [own : UcCameras, has : {{}, {"reset", "led"}, Selectors}, next : BOOLEAN,
                     items : {MenuItems, MenuItems \ {1}}, unreadable : {{}, {1, PanReset, PantiltReset, 28}},
                     jpeg : {0, 80}]
    /\ ucAdded \in {{}, ucCamera.has} /\ ucMapped = {m \in Range(xu_mappings) : m.selector \in ucAdded}
    /\ ucPc \in {"add", "start"} /\ ucAt = 1      \* "start": option -n
    /\ ucNull = TRUE /\ ucRoom = 0 /\ ucList = <<>> /\ ucOutside = FALSE /\ ucGarbage = FALSE /\ ucFaults = 0

\* The controls the driver offers by now.
Offered == ucCamera.own \cup {m.id : m \in ucMapped}
ucArray == <<ucNull, ucRoom, ucList, ucOutside>>

-----------------------------------------------------------------------------
\* initDynCtrls(): UVCIOC_CTRL_ADD for every control; one that exists, or that the camera lacks, is reported only.
AddControl ==
    /\ ucPc = "add"
    /\ ucAdded' = ucAdded \cup ({xu_ctrls[ucAt].selector} \cap ucCamera.has)
    /\ IF ucAt < Len(xu_ctrls) THEN ucAt' = ucAt + 1 /\ UNCHANGED ucPc ELSE ucAt' = 1 /\ ucPc' = "map"
    /\ UNCHANGED <<ucCamera, ucMapped, ucArray, ucGarbage, ucFaults>>

\* Mutant: the first mapping without its control ends the loop.
AddMappingStops ==
    /\ ucPc = "map"
    /\ LET m == xu_mappings[ucAt] IN
       /\ ucMapped' = IF m.selector \in ucAdded THEN ucMapped \cup {m} ELSE ucMapped
       /\ IF ucAt < Len(xu_mappings) /\ m.selector \in ucAdded THEN ucAt' = ucAt + 1 /\ UNCHANGED ucPc
          ELSE ucAt' = 1 /\ ucPc' = "start"
    /\ UNCHANGED <<ucCamera, ucAdded, ucArray, ucGarbage, ucFaults>>

\* UVCIOC_CTRL_MAP for every mapping.
AddMapping ==
    /\ ucPc = "map"
    /\ LET m == xu_mappings[ucAt] IN ucMapped' = IF m.selector \in ucAdded THEN ucMapped \cup {m} ELSE ucMapped
    /\ IF ucAt < Len(xu_mappings) THEN ucAt' = ucAt + 1 /\ UNCHANGED ucPc ELSE ucAt' = 1 /\ ucPc' = "start"
    /\ UNCHANGED <<ucCamera, ucAdded, ucArray, ucGarbage, ucFaults>>

-----------------------------------------------------------------------------
\* The value the list shows: the camera's, and for a control that cannot be read what resets it, or zero.
InCamera(id) == 100 + id
ValueRead(id) ==
    CASE id \notin ucCamera.unreadable -> InCamera(id)
      [] id \in ucCamera.unreadable /\ id \in {PanReset, TiltReset} -> 1
      [] id \in ucCamera.unreadable /\ id = PantiltReset -> 3
      [] OTHER -> 0

\* The menu items that VIDIOC_QUERYMENU filled in; the others of the malloc()ed array stay as they are.  That
\* malloc() is taken to succeed.
MenuRead(id) == IF id = MenuControl THEN ucCamera.items ELSE {}

\* The elements in_parameters has after calloc() or realloc().
RoomForNext == IF ucNull THEN 1 ELSE Len(ucList) + 1

\* An element behind the last one, for which there is room when the pointer was not lost before; or no memory.
Stored(entry) ==
    \/ /\ ucNull' = FALSE /\ ucRoom' = RoomForNext /\ ucOutside' = (ucOutside \/ Len(ucList) >= RoomForNext)
       /\ ucList' = Append(ucList, entry) /\ UNCHANGED ucFaults
    \/ /\ ucFaults < UcMaxFaults /\ ucFaults' = ucFaults + 1
       /\ ucNull' = TRUE /\ ucRoom' = 0 /\ UNCHANGED <<ucList, ucOutside>>

control_readed(id) == Stored([id |-> id, value |-> ValueRead(id), menu |-> MenuRead(id)])

\* What VIDIOC_QUERYCTRL answers when it fails although the control is there, a signal having come.
Interrupted == ucFaults < UcMaxFaults /\ ucFaults' = ucFaults + 1 /\ UNCHANGED ucArray

\* The first answer decides between V4L2_CTRL_FLAG_NEXT_CTRL and the standard API; malloc(0) is not NULL.
EnumerateStart ==
    /\ ucPc = "start"
    /\ ucNull' = FALSE /\ UNCHANGED <<ucRoom, ucList, ucOutside>>
    /\ \/ /\ ucCamera.next /\ Offered # {} /\ ucPc' = "next" /\ ucAt' = Min(Offered) /\ UNCHANGED ucFaults
       \/ /\ ~(ucCamera.next /\ Offered # {}) /\ ucPc' = "standard" /\ ucAt' = Min(Standard) /\ UNCHANGED ucFaults
       \/ /\ ucFaults < UcMaxFaults /\ ucFaults' = ucFaults + 1 /\ ucPc' = "standard" /\ ucAt' = Min(Standard)
    /\ UNCHANGED <<ucCamera, ucAdded, ucMapped, ucGarbage>>

\* The loop: control_readed(), then the query for the one behind, which ends the loop when it fails.
NextControl ==
    /\ ucPc = "next"
    /\ \/ /\ control_readed(ucAt)
          /\ LET Behind == {id \in Offered : id > ucAt} IN
             IF Behind # {} THEN ucAt' = Min(Behind) /\ UNCHANGED ucPc ELSE ucPc' = "jpeg" /\ UNCHANGED ucAt
       \/ /\ ucAt # Min(Offered) /\ Interrupted /\ ucPc' = "jpeg" /\ UNCHANGED ucAt
    /\ UNCHANGED <<ucCamera, ucAdded, ucMapped, ucGarbage>>

\* Every standard id, then the private ones up to the first that is not there.
StandardControl ==
    /\ ucPc = "standard"
    /\ \/ ucAt \in Offered /\ control_readed(ucAt)
       \/ ucAt \in Offered /\ Interrupted
       \/ ucAt \notin Offered /\ UNCHANGED <<ucArray, ucFaults>>
    /\ IF ucAt = Max(Standard) THEN ucPc' = "private" /\ ucAt' = PrivateBase ELSE ucAt' = ucAt + 1 /\ UNCHANGED ucPc
    /\ UNCHANGED <<ucCamera, ucAdded, ucMapped, ucGarbage>>

PrivateControl ==
    /\ ucPc = "private"
    /\ \/ ucAt \in Offered /\ control_readed(ucAt) /\ ucAt' = ucAt + 1 /\ UNCHANGED ucPc
       \/ ucAt \in Offered /\ Interrupted /\ ucPc' = "jpeg" /\ UNCHANGED ucAt
       \/ ucAt \notin Offered /\ ucPc' = "jpeg" /\ UNCHANGED <<ucAt, ucArray, ucFaults>>
    /\ UNCHANGED <<ucCamera, ucAdded, ucMapped, ucGarbage>>

\* VIDIOC_G_JPEGCOMP: xioctl() returns -1 and never EINVAL, so the quality is listed whether it can be set or not.
JpegControl ==
    /\ ucPc = "jpeg" /\ ucPc' = "done"
    /\ Stored([id |-> Jpeg, value |-> ucCamera.jpeg, menu |-> {}])
    /\ UNCHANGED <<ucCamera, ucAdded, ucMapped, ucAt, ucGarbage>>

\* send_input_JSON() reads parametercount elements and names every item of a menu, unless in_parameters is NULL.
InputJson ==
    /\ ucPc = "done" /\ ucPc' = "served"
    /\ ucGarbage' = /\ ~ucNull
                    /\ \/ ucOutside
                       \/ \E i \in DOMAIN ucList : ucList[i].id = MenuControl /\ ucList[i].menu # MenuItems
    /\ UNCHANGED <<ucCamera, ucAdded, ucMapped, ucAt, ucArray, ucFaults>>

UcNext ==
    \/ AddControl \/ AddMapping \/ EnumerateStart \/ NextControl \/ StandardControl \/ PrivateControl \/ JpegControl
    \/ InputJson

UcSpec == UcInit /\ [][UcNext]_ucVars

-----------------------------------------------------------------------------
UcTypeOK ==
    /\ ucAdded \subseteq ucCamera.has /\ ucMapped \subseteq Range(xu_mappings)
    /\ ucPc \in {"add", "map", "start", "next", "standard", "private", "jpeg", "done", "served"} /\ ucAt \in 1 .. Jpeg
    /\ {ucNull, ucOutside, ucGarbage} \subseteq BOOLEAN /\ ucRoom \in 0 .. Len(ucList) + 1
    /\ ucFaults \in 0 .. UcMaxFaults

\* Once initDynCtrls() has gone through its tables, the driver has every mapping whose control the camera has, and
\* no other, whatever of them it had from an earlier run; and none reaches beyond the bytes of its control.
MappingsInstalled ==
    /\ \A m \in ucMapped, i \in DOMAIN xu_ctrls :
         xu_ctrls[i].selector = m.selector => m.offset + m.size <= 8 * xu_ctrls[i].size
    /\ ucPc \in {"start", "next", "standard", "private", "jpeg", "done", "served"} /\ ucAdded # {} =>
         ucMapped = {m \in Range(xu_mappings) : m.selector \in ucAdded}

\* The controls that the driver's way of enumerating reaches.
Reached ==
    IF ucCamera.next /\ Offered # {} THEN Offered
    ELSE (Offered \cap Standard) \cup
         {id \in Offered : id >= PrivateBase /\ id < Extended /\ \A k \in PrivateBase .. id : k \in Offered}

\* As long as no call fails the list has every control once, in the order of the ids, and the JPEG quality at its
\* end; a driver that does not know NEXT_CTRL hides the extension controls and the private ones behind a gap.
EveryControlListed ==
    ucPc = "done" /\ ucFaults = 0 =>
        LET n == Cardinality(Reached) IN
        /\ Len(ucList) = n + 1 /\ ucList[n + 1] = [id |-> Jpeg, value |-> ucCamera.jpeg, menu |-> {}]
        /\ {ucList[i].id : i \in 1 .. n} = Reached
        /\ \A i \in 1 .. n - 1 : ucList[i].id < ucList[i + 1].id

\* The list shows what the camera has, or for a reset button the value that pressing it sends.
ValuesShown ==
    \A i \in DOMAIN ucList :
        LET e == ucList[i] IN
        \/ e.id = Jpeg \/ e.value = InCamera(e.id)
        \/ e.id \in ucCamera.unreadable /\ e.value = IF e.id \in {PanReset, TiltReset} THEN 1
                                                     ELSE IF e.id = PantiltReset THEN 3 ELSE 0

\* Nothing is written outside of in_parameters unless an allocation failed after a control was listed: the next
\* one then gets an array of one element.
WritesInside == ucOutside => ucFaults > 0

\* A client is sent memory that was never written only when the driver did not name every item of a menu, or when
\* an allocation failed and the list went on in an array without its first elements.
JsonReadsSet == ucGarbage => ucCamera.items # MenuItems \/ ucOutside

\* initDynCtrls(), enumerateControls() and input.json show the controls of the camera, all of them, with the values they
\* have, and from memory that is theirs.
ControlsRight == MappingsInstalled /\ EveryControlListed /\ ValuesShown /\ WritesInside /\ JsonReadsSet
=============================================================================
