---------------------------- MODULE CameraFrame ----------------------------
(* What the camera drivers do on the bus for a capture.  A value read from *)
(* the sensor is the capture it is of, Bad when it is the mark 0x7FFF, or  *)
(* Noise when nothing was read; a transfer is "ok" or how it failed.  The  *)
(* buffers outlive a capture: f is the frame as the last one left it.      *)
EXTENDS Integers, Sequences

CONSTANTS
    Lines,      \* lines of a picture, numbered from 0
    MaxPolls    \* looks at the status before a capture is given up

Bad == "bad"
Noise == "noise"
Line == 0 .. Lines - 1

(* The status register is looked at until it has data or fails. *)
Polled(polls) ==
    LET ends == {n \in 1..MaxPolls : n > Len(polls) \/ polls[n] # "wait"}
        at   == CHOOSE n \in ends : \A m \in ends : n <= m
    IN  IF ends = {} THEN "timeout"
        ELSE IF at > Len(polls) THEN "nack" ELSE polls[at]
PageOf(poll) == IF poll = "page1" THEN 1 ELSE 0

(* A trigger is written, a reset sent to every device on the bus, and the  *)
(* trigger must be gone.                                                   *)
TriggerMeasurement(bus) ==
    CASE bus.before # "ok" -> bus.before
      [] bus.write # "ok"  -> bus.write
      [] bus.reset # "ok"  -> bus.reset
      [] bus.after # "ok"  -> bus.after
      [] bus.bit -> "trigger"
      [] OTHER -> "ok"

(* The lines that a transfer brings, all of them or those before it failed. *)
Brought(lines, source, part, got) ==
    [l \in Line |-> IF l \in part /\ l < got THEN source[l] ELSE lines[l]]

(* The words of the ambient measurement that must not be marked; a word   *)
(* of the 64 stands for itself.                                            *)
AuxChecked == {0} \cup 8..18 \cup 20..22 \cup 24..32 \cup 40..50 \cup 52..54 \cup 56..63
ValidateAuxData(bad) == bad \cap AuxChecked = {}
AuxChecked41 == {0} \cup 8..18 \cup 20..22 \cup 24..32 \cup 40..47
ValidateAuxData41(bad) == bad \cap AuxChecked41 = {}

(* A marked line counts when the sub-page that was measured has it.        *)
ValidateFrameData(f) == \A l \in Line : f.lines[l] = Bad => l % 2 # f.page
ValidateFrameData41(f) == \A l \in Line : f.lines[l] # Bad

-----------------------------------------------------------------------------
(* MLX90640_GetFrameData *)

(* Ambient words that are marked leave those of an earlier frame in place, *)
(* and the result of their check is overwritten by the next one.           *)
Judged(valid, whole) ==
    [error |-> IF valid THEN "ok" ELSE "frame", frame |-> whole]
WithAux(f, bus, usable) == IF usable THEN [f EXCEPT !.aux = bus.aux] ELSE f
(* The register and the page are stored before the read of the register is *)
(* known to have worked.                                                   *)
Stored(f, bus, page) ==
    [f EXCEPT !.ctrl = IF bus.ctrl = "ok" THEN bus.mode ELSE Noise, !.page = page]

GetFrameData(f, bus) ==
    LET poll  == Polled(bus.polls)
        read  == [f EXCEPT !.lines = Brought(@, bus.lines, Line, bus.got)]
        told  == Stored(read, bus, PageOf(poll))
        whole == WithAux(told, bus, ValidateAuxData(bus.bad))
    IN  CASE poll \notin {"page0", "page1"} -> [error |-> poll, frame |-> f]
          [] bus.clear = "nack" -> [error |-> "nack", frame |-> f]
          [] bus.got < Lines -> [error |-> "nack", frame |-> read]
          [] bus.auxRead # "ok" -> [error |-> bus.auxRead, frame |-> read]
          [] bus.ctrl # "ok" -> [error |-> bus.ctrl, frame |-> told]
          [] OTHER -> Judged(ValidateFrameData(whole), whole)

-----------------------------------------------------------------------------
(* MLX90641_GetFrameData: a picture in blocks, at the addresses of the     *)
(* sub-page that was measured; got counts the lines of the blocks that     *)
(* came.                                                                   *)
GetFrameData41(f, bus) ==
    LET poll  == Polled(bus.polls)
        read  == [f EXCEPT !.lines = Brought(@, bus.pages[PageOf(poll)], Line, bus.got)]
        told  == Stored(read, bus, PageOf(poll))
        whole == WithAux(told, bus, ValidateAuxData41(bus.bad))
    IN  CASE poll \notin {"page0", "page1"} -> [error |-> poll, frame |-> f]
          [] bus.clear = "nack" -> [error |-> "nack", frame |-> f]
          [] bus.got < Lines -> [error |-> "nack", frame |-> read]
          [] bus.auxRead # "ok" -> [error |-> bus.auxRead, frame |-> read]
          [] bus.ctrl # "ok" -> [error |-> bus.ctrl, frame |-> told]
          [] OTHER -> Judged(ValidateFrameData41(whole), whole)

-----------------------------------------------------------------------------
(* The 90642: a register is read, a field of it replaced and the register  *)
(* written; the result is that of the write.                               *)
SetField(register, field, value, allowed, bus) ==
    CASE value \notin allowed -> [error |-> "invalid", register |-> register]
      [] bus.read # "ok" -> [error |-> bus.read, register |-> register]
      [] bus.write # "ok" -> [error |-> bus.write, register |-> register]
      [] OTHER -> [error |-> "ok", register |-> [register EXCEPT ![field] = value]]
SetMeasMode(register, mode, bus) ==
    SetField(register, "mode", mode, {"continuous", "step"}, bus)
SetOutputFormat(register, format, bus) ==
    SetField(register, "format", format, {"temperature", "normalized"}, bus)
(* The format is only tried when the mode was set, and not checked.        *)
Init42(register, first, second) ==
    LET mode == SetMeasMode(register, "step", first)
    IN  IF mode.error # "ok" THEN mode.register
        ELSE SetOutputFormat(mode.register, "temperature", second).register

IsDataReady(bus) == IF bus.flags # "ok" THEN bus.flags ELSE IF bus.ready THEN "yes" ELSE "no"
(* A read of a temperature clears the flag; the flag is read back, and a   *)
(* caller that asks for less than zero takes a flag still set as cleared.  *)
ClearDataReady(bus) == IF bus.touch # "ok" THEN bus.touch ELSE IsDataReady(bus)
Started42(bus) == ClearDataReady(bus) \in {"yes", "no"} /\ bus.start = "ok"

(* Three reads, one after the other. *)
GetFrameData42(f, bus) ==
    LET aux == [f EXCEPT !.aux = bus.of]
        raw == [aux EXCEPT !.raw = bus.of]
    IN  CASE bus.aux # "ok" -> [error |-> bus.aux, frame |-> f]
          [] bus.raw # "ok" -> [error |-> bus.raw, frame |-> aux]
          [] bus.temps # "ok" -> [error |-> bus.temps, frame |-> raw]
          [] OTHER -> [error |-> "ok", frame |-> [raw EXCEPT !.temps = bus.of]]

(* The status query of a stepped camera. *)
Status42(status, f, bus) ==
    LET got == GetFrameData42(f, bus)
    IN  CASE status # "busy" -> [status |-> status, frame |-> f]
          [] IsDataReady(bus) = "no" -> [status |-> "busy", frame |-> f]
          [] IsDataReady(bus) # "yes" -> [status |-> "error", frame |-> f]
          [] OTHER -> [status |-> IF got.error = "ok" THEN "ready" ELSE "error", frame |-> got.frame]

-----------------------------------------------------------------------------
(* The pixels whose temperature MLX90640_CalculateTo computes: those of    *)
(* the sub-page, by lines or as a chessboard of columns and lines.         *)
Pattern(mode, line, column) ==
    IF mode = "interleaved" THEN line % 2 ELSE (line + column) % 2
Computed(mode, page, columns) ==
    {p \in Line \X (0 .. columns - 1) : Pattern(mode, p[1], p[2]) = page}
(* The ranges of the correction begin at ct: the first whose successor      *)
(* begins above the temperature.                                           *)
RangeOf(ct, t) ==
    LET above == {n \in DOMAIN ct \ {1} : t < ct[n]}
    IN  IF above = {} THEN Len(ct) - 1 ELSE (CHOOSE n \in above : \A m \in above : n <= m) - 2
(* A capture of the 90640 or 90641: its trigger, its frame, temperatures.  *)
Capture(f, temps, trigger, result, computed) ==
    CASE trigger # "ok" -> [status |-> "error", frame |-> f, temps |-> temps]
      [] result.error # "ok" -> [status |-> "error", frame |-> result.frame, temps |-> temps]
      [] OTHER -> [status |-> "ready", frame |-> result.frame,
                   temps |-> [p \in DOMAIN temps |-> IF p \in computed
                                                     THEN result.frame.lines[p[1]] ELSE temps[p]]]
=============================================================================
