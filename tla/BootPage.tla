------------------------------ MODULE BootPage ------------------------------
(***************************************************************************)
(* What a signed command may change in a master bootloader that was built  *)
(* with URTC_BL_PROGRAMMABLE_SERIAL or URTC_BL_ROTATION_COMMAND (both are  *)
(* 0 by default): the serial number, kept in two slots after the log of    *)
(* the metadata page, which they share with it; and the key that signs,    *)
(* kept in RAM until a reset.                                              *)
(*                                                                         *)
(* A slot is four words, programmed one after the other, the magic last.   *)
(* The log is told apart only by how full it is and what it ends with.     *)
(***************************************************************************)
EXTENDS Integers, Sequences, SequencesExt

CONSTANTS
    Builds,        \* the switches and the trust table a bootloader may be built with
    NoKey,         \* a field of zeros where a key id may be
    Fold,          \* the serial number that the unique ID of the chip gives
    NotASerial,    \* 0 and 0xFFFFFFFF
    Serial,        \* the serial numbers a host gives
    MaxCounter,    \* bound: counters of signed commands
    MetaState,     \* what a record of the log may say
    LogLength,     \* records that fit in the log (28)
    Wrap,          \* 2^32, in seconds of the host
    HostTime,      \* bound: the times of the host
    MaxUptime,     \* bound: seconds the bootloader runs, below the wrap of its tick
    Window,        \* windows a command may ask for
    MaxWindow,     \* URTC_BL_ROTATION_MAX_WINDOW_S
    MaxMishaps     \* bound: power failures and flash errors

ASSUME BootPageAssumption ==
    /\ {MaxCounter, LogLength, Wrap, MaxUptime, MaxWindow, MaxMishaps} \subseteq Nat
    /\ MaxUptime < Wrap /\ HostTime \subseteq 0 .. Wrap - 1 /\ Window \subseteq Nat
    /\ {Fold, NotASerial} \cap Serial = {} /\ Fold # NotASerial

VARIABLES
    build,     \* its own table, and whether it has the serial and the rotation
    page,      \* the metadata page: slots a and b, and the log
    todo,      \* flash operations that the call under way has left
    storing,   \* the command whose serial is being stored, or NoCommand
    serial,    \* bl_node.serial, which the head answers with
    told,      \* the last command confirmed
    lost,      \* since then the page was being recycled when it lost both slots
    rot,       \* urtc_krc_state_t
    began,     \* uptime and window of the command that began the rotation
    uptime,    \* HAL_GetTick() / 1000
    busy,      \* update_in_progress
    mishaps

pageVars == <<build, page, todo, storing, serial, told, lost, rot, began, uptime, busy, mishaps>>

-----------------------------------------------------------------------------
(* The trust table *)

(* trust_entry_ok fails for an entry of no legal state, or whose id is not *)
(* the hash of its key; one such entry and nothing is trusted.             *)
Keys(t) ==
    LET In(state) == SelectSeq(t, LAMBDA e : e.state = state)
        all == In("current") \o In("next")
    IN  IF \E i \in DOMAIN t : ~t[i].ok THEN <<>>
        ELSE [i \in DOMAIN all |-> all[i].key]

Trusted == ToSet(Keys(build.table))

-----------------------------------------------------------------------------
(* The two slots of the serial *)

SlotOrder_MagicFirst == <<"magic", "serial", "check", "counter">>
(* serial_slot_program *)
SlotOrder == <<"serial", "check", "counter", "magic">>

BlankSlot == [words |-> {}, serial |-> NotASerial, counter |-> 0]
TornSlot  == [words |-> {"torn"}, serial |-> NotASerial, counter |-> 0]

(* A slot whose first n words of s and c were programmed. *)
Slot(n, s, c) == [words |-> ToSet(SubSeq(SlotOrder, 1, n)), serial |-> s, counter |-> c]

(* urtc_serial_slot_valid: the counter is trusted; unwritten it reads as   *)
(* the largest.                                                            *)
ValidSlot(s) == {"magic", "serial", "check"} \subseteq s.words
CounterOf(s) == IF "counter" \in s.words THEN s.counter ELSE MaxCounter + 1

Kept == {s \in {page.a, page.b} : ValidSlot(s)}
(* urtc_serial_pick: the highest counter, slot a on a tie *)
Picked ==
    IF ValidSlot(page.a) /\ (ValidSlot(page.b) => CounterOf(page.b) <= CounterOf(page.a))
    THEN page.a ELSE page.b

StoredCounter == IF Kept = {} THEN 0 ELSE CounterOf(Picked)
StoredSerial  == IF Kept = {} \/ ~build.programmable THEN Fold ELSE Picked.serial

-----------------------------------------------------------------------------
(* The flash operations of one call, in the order of the code *)

EmptyPage == [a |-> BlankSlot, b |-> BlankSlot, log |-> <<>>]
TornPageOf(p) == [a |-> TornSlot, b |-> TornSlot, log |-> [i \in 1 .. LogLength |-> "torn"]]

ErasePage == [op |-> "erase"]
Program(where, s, c) == [op |-> where, serial |-> s, counter |-> c]
AppendRecord(m) == [op |-> "log", meta |-> m]

Records(log) == SelectSeq(log, LAMBDA m : m # "torn")
HasMeta == Records(page.log) # <<>>
NewestMeta == Last(Records(page.log))

(* Metadata_EraseAndWrite, when the page is full: the serial is carried    *)
(* over the erase.                                                         *)
RecycledLog(m) ==
    <<ErasePage>> \o (IF Kept = {} THEN <<>> ELSE <<Program("a", Picked.serial, CounterOf(Picked))>>)
               \o <<AppendRecord(m)>>
MetadataWrite(m) ==
    IF HasMeta /\ NewestMeta = m THEN <<>>
    ELSE IF Len(page.log) < LogLength THEN <<AppendRecord(m)>>
    ELSE RecycledLog(m)

(* Serial_Store: a blank slot, or the page is recycled, and the newest     *)
(* state of the log carried over.                                          *)
SerialStore(s, c) ==
    IF page.a = BlankSlot THEN <<Program("a", s, c)>>
    ELSE IF page.b = BlankSlot THEN <<Program("b", s, c)>>
    ELSE <<ErasePage, Program("a", s, c)>> \o (IF HasMeta THEN <<AppendRecord(NewestMeta)>> ELSE <<>>)

Done(o) ==
    CASE o.op = "erase" -> EmptyPage
      [] o.op = "a" -> [page EXCEPT !.a = Slot(4, o.serial, o.counter)]
      [] o.op = "b" -> [page EXCEPT !.b = Slot(4, o.serial, o.counter)]
      [] o.op = "log" -> [page EXCEPT !.log = Append(@, o.meta)]

(* What a cut, or a word that the flash does not take, leaves behind. *)
PartOf(o) ==
    CASE o.op = "erase" -> {page, TornPageOf(page)}
      [] o.op = "a" -> {[page EXCEPT !.a = Slot(n, o.serial, o.counter)] : n \in 0 .. 4}
      [] o.op = "b" -> {[page EXCEPT !.b = Slot(n, o.serial, o.counter)] : n \in 0 .. 4}
      [] o.op = "log" -> {page, [page EXCEPT !.log = Append(@, "torn")]}

-----------------------------------------------------------------------------
(* The rotation of the signing key: urtc_key_rotation.h *)

NoRotation == [current |-> NoKey, previous |-> NoKey, window |-> 0, started |-> 0,
               counter |-> 0, hostTime |-> 0, offset |-> 0]
(* rot_load: the current key of the table alone *)
Loaded(t) == [NoRotation EXCEPT !.current = IF Keys(t) = <<>> THEN NoKey ELSE Head(Keys(t))]

(* rot_now: the clock of the host, kept up by the uptime, in 32 bits *)
Now == (uptime + rot.offset) % Wrap

InWindow_Inclusive == rot.window # 0 /\ Now >= rot.started /\ Now - rot.started <= rot.window
(* urtc_kr_in_window: earlier than the start is outside it *)
InWindow == rot.window # 0 /\ Now >= rot.started /\ Now - rot.started < rot.window

PreviousActive == rot.previous \notin {NoKey, rot.current} /\ InWindow
(* Rotation_AcceptedKeys: what may verify an image right now *)
AcceptedKeys ==
    IF ~build.rotation THEN Trusted
    ELSE Trusted \cap ({rot.current} \cup (IF PreviousActive THEN {rot.previous} ELSE {}))
SecondsLeft == rot.started + rot.window - Now
(* urtc_kr_announce: what a host is told of the rotation *)
Announced == [keys |-> AcceptedKeys, left |-> IF PreviousActive THEN SecondsLeft ELSE NoKey]

(* urtc_krc_decide on a record that the host signed, or did not *)
Rotates(r) ==
    /\ r.signer = rot.current /\ r.good
    /\ r.counter > rot.counter
    /\ r.time >= rot.hostTime /\ r.time # 0
    /\ r.new # r.previous /\ r.previous \in {NoKey, rot.current}
    /\ r.window <= MaxWindow
    /\ r.signer \in Trusted /\ r.new \in Trusted

Rotated(r) ==
    LET overlaps == r.previous # NoKey /\ r.new # rot.current
    IN  [current |-> r.new,
         previous |-> IF overlaps THEN r.previous ELSE NoKey,
         window |-> IF overlaps THEN r.window ELSE 0,
         started |-> r.time, counter |-> r.counter, hostTime |-> r.time,
         offset |-> (r.time - uptime) % Wrap]

-----------------------------------------------------------------------------
(* The bootloader *)

NoCommand == [serial |-> NotASerial, counter |-> 0]

(* The variables keep their types, and no call has more left than it was given. *)
PageTypeOK ==
    /\ serial \in Serial \cup {Fold} /\ uptime \in 0 .. MaxUptime
    /\ mishaps \in 0 .. MaxMishaps /\ busy \in BOOLEAN
    /\ Len(page.log) <= LogLength /\ Len(todo) <= 3

Began(w) == [at |-> uptime, window |-> w]

PageInit ==
    /\ build \in Builds
    /\ page = EmptyPage /\ todo = <<>> /\ storing = NoCommand
    /\ serial = Fold /\ told = NoCommand /\ lost = FALSE
    /\ rot = Loaded(build.table) /\ began = [at |-> 0, window |-> 0]
    /\ uptime = 0 /\ busy = FALSE /\ mishaps = 0

Idle == todo = <<>>

AnyKey == UNION {{b.table[i].key : i \in DOMAIN b.table} : b \in Builds}
(* The signature covers the serial, the counter, the key and the unique ID *)
(* of the head, not the target: `good` when it is over those of this head. *)
Command == [target : Serial \cup {Fold}, key : AnyKey, serial : Serial \cup {NotASerial},
            counter : 0 .. MaxCounter, good : BOOLEAN]
RotationRecord == [signer : AnyKey, new : AnyKey, previous : AnyKey \cup {NoKey},
                   window : Window, time : HostTime, counter : 1 .. MaxCounter, good : BOOLEAN]

(* urtc_serial_decide: the target is the serial that this head answers     *)
(* with, the signature is over its unique ID.                              *)
Decide(c) ==
    CASE c.target # serial -> "not for me"
      [] ~build.programmable -> "disabled"
      [] busy -> "busy"
      [] c.key \notin Trusted -> "unknown key"
      [] ~c.good -> "bad signature"
      [] c.serial = NotASerial -> "bad serial"
      [] c.counter <= StoredCounter -> "replay"
      [] OTHER -> "ok"

(* The last chunk of a serial command: any that was signed once may come   *)
(* again, with another target.  One that is refused changes nothing.       *)
SerialCommand ==
    /\ Idle
    /\ \E c \in Command :
          /\ Decide(c) = "ok"
          /\ storing' = [serial |-> c.serial, counter |-> c.counter]
          /\ todo' = SerialStore(c.serial, c.counter)
    /\ UNCHANGED <<build, page, serial, told, lost, rot, began, uptime, busy, mishaps>>

(* The update protocol and the start-up append what they have to say. *)
MetadataCommand ==
    /\ Idle /\ \E m \in MetaState : todo' = MetadataWrite(m)
    /\ UNCHANGED <<build, page, storing, serial, told, lost, rot, began, uptime, busy, mishaps>>

(* One flash operation; after the last one of Serial_Store the head        *)
(* answers with the new serial.                                            *)
FlashStep ==
    /\ ~Idle /\ page' = Done(Head(todo)) /\ todo' = Tail(todo)
    /\ IF Len(todo) = 1 /\ storing # NoCommand
       THEN /\ serial' = storing.serial /\ storing' = NoCommand
            /\ told' = storing /\ lost' = FALSE
       ELSE UNCHANGED <<serial, told, lost, storing>>
    /\ UNCHANGED <<build, rot, began, uptime, busy, mishaps>>

(* Between the erase of a page that is recycled and its first slot, the    *)
(* serial is in RAM alone.                                                 *)
Recycling == ~Idle /\ (Head(todo) = ErasePage \/ Kept = {})

(* What is cut short: the call, and perhaps the page with it. *)
CallBroken ==
    /\ todo' = <<>> /\ storing' = NoCommand
    /\ told' = told /\ lost' = (lost \/ (Recycling /\ Kept' = {}))

Mishap == mishaps < MaxMishaps /\ mishaps' = mishaps + 1

FlashError ==
    /\ ~Idle /\ Mishap /\ page' \in PartOf(Head(todo))
    /\ CallBroken
    /\ UNCHANGED <<build, serial, rot, began, uptime, busy>>

(* A reset or a power failure: the rotation is forgotten *)
PageCut ==
    /\ UNCHANGED build /\ Mishap
    /\ page' \in (IF Idle THEN {page} ELSE PartOf(Head(todo)))
    /\ CallBroken
    /\ serial' = StoredSerial' /\ rot' = Loaded(build.table)
    /\ began' = [at |-> 0, window |-> 0] /\ uptime' = 0 /\ busy' = FALSE

(* The last chunk of a rotation command *)
RotationCommand ==
    /\ Idle /\ build.rotation /\ ~busy
    /\ \E r \in RotationRecord :
          /\ Rotates(r) /\ rot' = Rotated(r)
          /\ began' = Began(r.window)
    /\ UNCHANGED <<build, page, todo, storing, serial, told, lost, uptime, busy, mishaps>>

UpdateStarts ==
    /\ Idle /\ ~busy /\ busy' = TRUE
    /\ UNCHANGED <<build, page, todo, storing, serial, told, lost, rot, began, uptime, mishaps>>
UpdateEnds ==
    /\ Idle /\ busy /\ busy' = FALSE
    /\ UNCHANGED <<build, page, todo, storing, serial, told, lost, rot, began, uptime, mishaps>>

(* Seconds matter to the window alone. *)
Second ==
    /\ Idle /\ build.rotation /\ uptime < MaxUptime /\ uptime' = uptime + 1
    /\ UNCHANGED <<build, page, todo, storing, serial, told, lost, rot, began, busy, mishaps>>

PageNext ==
    \/ SerialCommand \/ MetadataCommand \/ FlashStep \/ FlashError \/ PageCut
    \/ RotationCommand \/ UpdateStarts \/ UpdateEnds \/ Second
PageSpec == PageInit /\ [][PageNext]_pageVars

-----------------------------------------------------------------------------
(* A record of the serial that is believed has all its words; and once a   *)
(* command was confirmed, what the page holds is that command or one after *)
(* it, however often the page is recycled and whatever is cut or fails, so *)
(* that no older one is obeyed again; but for a cut or an error that finds *)
(* the page being recycled, after the erase.  Then the counter is gone     *)
(* with the serial (bootloader_flash.c:248-249, 277-278).                  *)
SerialKept ==
    /\ \A s \in Kept : s.words = ToSet(SlotOrder)
    /\ Idle /\ told # NoCommand => StoredCounter >= told.counter \/ lost

(* The comment of Serial_Store (bootloader_flash.c:244-245): a cut while it *)
(* recycles the page costs the state of the update, never the serial;      *)
(* and the one of bootloader_flash.h:22-23.  A head that was given a serial *)
(* answers with one that was given: not kept by a cut within the recycling. *)
SerialNeverLost == told # NoCommand => serial # Fold

(* The key that was replaced verifies nothing once the window that the     *)
(* command gave has passed, by the uptime of the bootloader; no other      *)
(* command prolongs it but one signed by the key now current, and what is  *)
(* announced is the time it has left.                                      *)
PreviousExpires ==
    build.rotation /\ rot.previous \in AcceptedKeys \ {rot.current} =>
        /\ uptime < began.at + began.window
        /\ Announced.left = began.at + began.window - uptime

-----------------------------------------------------------------------------
(* The inductive invariants behind them                                    *)

SlotInv(slot) ==
    /\ "magic" \in slot.words => slot.words = ToSet(SlotOrder)
    /\ slot.counter \in 0 .. MaxCounter

PageShape ==
    /\ page = [a |-> page.a, b |-> page.b, log |-> page.log]
    /\ SlotInv(page.a) /\ SlotInv(page.b)

(* A slot that a call is going to write: it carries on what is stored, or  *)
(* the command that is being stored.                                       *)
SlotWrite(o) ==
    /\ o = Program(o.op, o.serial, o.counter) /\ o.counter \in 0 .. MaxCounter
    /\ StoredCounter <= o.counter
    /\ storing # NoCommand => storing = [serial |-> o.serial, counter |-> o.counter]

(* After n operations, nothing or a record of the log. *)
EndsAfter(n) == Len(todo) = n \/ (Len(todo) = n + 1 /\ todo[n + 1].op = "log")

(* What the call under way has left: a slot that is blank, alone or after  *)
(* the erasure, and a record of the log.                                   *)
PlanInv ==
    /\ Len(todo) \in 0 .. 3 /\ todo = [i \in 1 .. Len(todo) |-> todo[i]]
    /\ \/ todo = <<>> /\ storing = NoCommand
       \/ /\ Len(todo) = 1 /\ todo[1].op = "log"
          /\ storing # NoCommand => storing.counter \in 0 .. StoredCounter
       \/ /\ Len(todo) = 2 /\ todo[1] = ErasePage /\ todo[2].op = "log"
          /\ storing = NoCommand /\ Kept = {}
       \/ /\ todo # <<>> /\ EndsAfter(1) /\ SlotWrite(todo[1])
          /\ \/ todo[1].op = "a" /\ page.a = BlankSlot
             \/ todo[1].op = "b" /\ page.b = BlankSlot
       \/ /\ Len(todo) > 1 /\ EndsAfter(2) /\ todo[1] = ErasePage
          /\ SlotWrite(todo[2]) /\ todo[2].op = "a"

(* The command confirmed last is on the page, or on its way back to it,    *)
(* unless the page was lost.                                               *)
ToldInv ==
    told # NoCommand /\ ~lost =>
      /\ told.counter \in 0 .. MaxCounter
      /\ \/ StoredCounter >= told.counter
         \/ /\ todo # <<>> /\ todo[1].op = "a" /\ Kept = {}
            /\ todo[1].counter >= told.counter

SerialInv == PageShape /\ PlanInv /\ ToldInv

(* The clock of the host, as the command that began the rotation set it. *)
RotationInv ==
    /\ uptime \in 0 .. MaxUptime
    /\ rot.previous # NoKey =>
          /\ rot.window = began.window /\ began.window \in Nat
          /\ began.at \in 0 .. uptime
          /\ rot.started \in 0 .. Wrap - 1
          /\ rot.offset = (rot.started - began.at) % Wrap
=============================================================================
