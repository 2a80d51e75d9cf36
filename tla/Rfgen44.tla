------------------------------- MODULE Rfgen44 -------------------------------
(***************************************************************************)
(* The command line program rfgen44.py: one invocation, from its arguments *)
(* to its end, against generators that are plugged in and out.  main()     *)
(* takes the operations asked for in a fixed order; each opens the device  *)
(* with the chosen serial number anew, and a write that fails is reported  *)
(* and otherwise ignored.                                                  *)
(*                                                                         *)
(* Frequencies are in units of 10 kHz and times in milliseconds: arguments *)
(* that are no numbers, and --list, which only prints, are left out.  What *)
(* a generator does with a command is external, modelled from what the     *)
(* program expects of it: it keeps what a command carries, loads its flash *)
(* when it gets power, and answers within the second the program waits.    *)
(***************************************************************************)
EXTENDS Adf4351, MacroBlocks, FiniteSets

CONSTANTS
  Serials,          \* serial numbers of the generators
  Firmware,         \* the major version of each
  Invocations,      \* the arguments the program may be called with
  Left,             \* frequency and setting the application sent the generators before
  OldMacro,         \* and the macro it left in their flash
  MACRO_MAX_STEPS,  \* 14 in the code
  MaxPlugs,         \* bound: changes of the cables
  None              \* an argument that is not given

Order == <<"write", "info", "flashwrite", "devindetify", "erase", "programsweep",
           "programmacro", "rfstate">>
Operations == {Order[i] : i \in 1 .. Len(Order)}

ASSUME SerialsAssumption ==
  None \notin Serials /\ IsFiniteSet(Serials) /\ Firmware \in [Serials -> Nat]
ASSUME LimitsAssumption ==
  MaxPlugs \in Nat /\ MACRO_MAX_STEPS \in 0 .. 2 * MACRO_STEPS_PER_BLOCK
ASSUME OldMacroAssumption ==
  /\ OldMacro \in Seq([frequency : MinFreq .. MaxFreq, duration : Nat, rf : BOOLEAN])
  /\ Len(OldMacro) <= 2 * MACRO_STEPS_PER_BLOCK
ASSUME LeftAssumption ==
  \A l \in Left : /\ l.frequency \in MinFreq .. MaxFreq /\ l.setting \in Setting
                  /\ l.setting.ref = Default.ref
ASSUME InvocationsAssumption ==
  \A a \in Invocations :
    /\ a.ops \subseteq Operations /\ a.ops # {}
    /\ a.serial_number \in Serials \cup {None}
    /\ a.sweep \in [start : Int, stop : Int, step : Int, ms : Int]
    /\ a.steps \in Seq([frequency : Int, duration : Int, rf : BOOLEAN])
    /\ a.rfstate \in {"read", "on", "off", "other"}

VARIABLES
  plugged,    \* the generators that are plugged in
  devs,       \* what each holds: registers in RAM, flash, macro blocks, output
  args,       \* the arguments
  at,         \* the operation main() is at, or a step within it
  serial,     \* args.serial_number
  open,       \* hid.Device is open and its generator still there
  status,     \* "running", or how the program ended
  failed,     \* history: something was reported, or the generator lost power
  plugs

vars == <<plugged, devs, args, at, serial, open, status, failed, plugs>>

Within == {"info.read", "version", "block0", "block1", "enable", "rfstate.read"}
Registers == [reg : [1 .. 6 -> Nat], frequency : Nat]
Flash == [mode : {"erased", "fixed", "sweep", "macro"}, ram : Registers, sweep : Seq(Nat)]

-----------------------------------------------------------------------------
(***************************************************************************)
(* What goes to the device.                                                *)
(***************************************************************************)
frequency_to_uint32(n) == Hundredfold(n)
Unmasked(n) == n
uint24_to_bytes(n) == n % 2^24

Payload(f) == [reg |-> CHOOSE r \in BuildRegisters(f, Default) : TRUE,
               frequency |-> frequency_to_uint32(f)]
NoSweep == <<>>
programSweep(s) ==
  [mode |-> "sweep", ram |-> Payload(3500),
   sweep |-> <<frequency_to_uint32(s.start), frequency_to_uint32(s.stop),
               frequency_to_uint32(s.step), s.ms % 2^16>>]
Erased == [mode |-> "erased", ram |-> Payload(3500), sweep |-> NoSweep]

(* STEP_FLAG_RECALC_PLL: the first step, and those whose frequency changes *)
OnlyChanges(steps, i) ==
  i > 1 /\ frequency_to_uint32(steps[i].frequency) # frequency_to_uint32(steps[i - 1].frequency)
Recalc(steps, i) ==
  \/ i = 1
  \/ frequency_to_uint32(steps[i].frequency) # frequency_to_uint32(steps[i - 1].frequency)

pack_step(steps, i) ==
  [frequency |-> uint24_to_bytes(frequency_to_uint32(steps[i].frequency)),
   step_ms |-> uint24_to_bytes(steps[i].duration), enabled |-> TRUE,
   rf |-> IF steps[i].rf THEN STEP_FLAG_RF_ON ELSE STEP_FLAG_RF_OFF,
   recalc |-> Recalc(steps, i)]

(* The steps of block k, of two.                                           *)
Slice(steps, k) ==
  LET all == [i \in 1 .. Len(steps) |-> pack_step(steps, i)]
  IN IF k = 0 THEN SubSeq(all, 1, IF Len(all) < MACRO_STEPS_PER_BLOCK THEN Len(all)
                                  ELSE MACRO_STEPS_PER_BLOCK)
     ELSE SubSeq(all, MACRO_STEPS_PER_BLOCK + 1, Len(all))
pack_macro_block(steps, k) ==
  [stepConfig |-> Slice(steps, k), macroSteps |-> Len(Slice(steps, k))]

-----------------------------------------------------------------------------
Init ==
  /\ plugged \in SUBSET Serials
  /\ \E l \in Left : \E r \in BuildRegisters(l.frequency, l.setting) :
       LET ram == [reg |-> r, frequency |-> frequency_to_uint32(l.frequency)]
       IN devs = [d \in Serials |->
            [ram |-> ram, flash |-> [mode |-> "macro", ram |-> ram, sweep |-> NoSweep],
             blocks |-> [k \in 0 .. 1 |-> pack_macro_block(OldMacro, k)], rf |-> TRUE]]
  /\ args \in Invocations
  /\ at = "start" /\ serial = None /\ open = FALSE
  /\ status = "running" /\ failed = FALSE /\ plugs = 0

-----------------------------------------------------------------------------
(***************************************************************************)
(* main()                                                                  *)
(***************************************************************************)
Index(op) == CHOOSE i \in 1 .. Len(Order) : Order[i] = op
First(S) == CHOOSE op \in S : \A o \in S : Index(op) <= Index(o)

(* On to the first of S, of the operations asked for.                      *)
GoOn(S) ==
  /\ at' = IF S = {} THEN "end" ELSE First(S)
  /\ status' = IF S = {} THEN "done" ELSE "running"
Done(op) == GoOn({o \in args.ops : Index(o) > Index(op)})

(* sys.exit(1), or an exception nobody catches                             *)
Stop(how) ==
  /\ at' = "end" /\ status' = how /\ open' = FALSE
  /\ UNCHANGED <<plugged, devs, args, serial, failed, plugs>>
Closed == UNCHANGED <<plugged, args, serial, open, plugs>>

Valid(f) == f \in MinFreq .. MaxFreq

(* write_to_hid_device: d is what the generator then holds                 *)
Written(d) ==
  IF serial \in plugged
    THEN devs' = [devs EXCEPT ![serial] = d] /\ UNCHANGED failed
    ELSE failed' = TRUE /\ UNCHANGED devs
Device == devs[serial]

(* find_usb_device, if no serial number was given                          *)
FindsFirst == plugged # {}
FindsOne == Cardinality(plugged) = 1
Start ==
  /\ at = "start"
  /\ \/ /\ args.serial_number # None
        /\ serial' = args.serial_number
        /\ GoOn(args.ops)
        /\ UNCHANGED <<plugged, devs, args, open, failed, plugs>>
     \/ /\ args.serial_number = None /\ FindsOne
        /\ serial' \in plugged
        /\ GoOn(args.ops)
        /\ UNCHANGED <<plugged, devs, args, open, failed, plugs>>
     \/ args.serial_number = None /\ ~FindsOne /\ Stop("exit")

(* --write, calc_and_write                                                 *)
Write ==
  /\ at = "write"
  /\ \/ /\ args.frequency = None \/ ~Valid(args.frequency)
        /\ Stop("exit")
     \/ /\ args.frequency # None /\ Valid(args.frequency)
        /\ Written([Device EXCEPT !.ram = Payload(args.frequency)])
        /\ Done("write") /\ Closed

(* --flashwrite, deviceCtrl                                                *)
FlashWrite ==
  /\ at = "flashwrite"
  /\ \/ /\ args.frequency = None \/ ~Valid(args.frequency)
        /\ Stop("exit")
     \/ /\ args.frequency # None /\ Valid(args.frequency)
        /\ Written([Device EXCEPT !.flash = [mode |-> "fixed", ram |-> Payload(args.frequency),
                                             sweep |-> NoSweep]])
        /\ Done("flashwrite") /\ Closed

(* --devindetify: the LED blinks                                           *)
Identify == at = "devindetify" /\ Written(Device) /\ Done("devindetify") /\ Closed
Erase == at = "erase" /\ Written([Device EXCEPT !.flash = Erased]) /\ Done("erase") /\ Closed

(* --programsweep; a negative step is found where it is converted          *)
Refused(s) ==
  s.start > s.stop \/ s.start + s.step > s.stop \/ ~Valid(s.start) \/ ~Valid(s.stop) \/ s.ms < 30
ProgramSweep ==
  /\ at = "programsweep"
  /\ \/ Refused(args.sweep) /\ Stop("exit")
     \/ ~Refused(args.sweep) /\ args.sweep.step < 0 /\ Stop("exception")
     \/ /\ ~Refused(args.sweep) /\ args.sweep.step >= 0
        /\ Written([Device EXCEPT !.flash = programSweep(args.sweep)])
        /\ Done("programsweep") /\ Closed

-----------------------------------------------------------------------------
(***************************************************************************)
(* Requests with a reply: the request is written, then the reply read.     *)
(***************************************************************************)
Ask(reading) ==
  /\ serial \in plugged
  /\ open' = TRUE /\ at' = reading
  /\ UNCHANGED <<plugged, devs, args, serial, status, failed, plugs>>
(* The report of the error, and the operation is over                      *)
Fails(op) ==
  /\ failed' = TRUE /\ open' = FALSE /\ Done(op)
  /\ UNCHANGED <<plugged, devs, args, serial, plugs>>

(* --info, read_device_firmware_build                                      *)
Info == at = "info" /\ (Ask("info.read") \/ (serial \notin plugged /\ Fails("info")))
InfoRead ==
  /\ at = "info.read"
  /\ \/ /\ open /\ open' = FALSE /\ Done("info")
        /\ UNCHANGED <<plugged, devs, args, serial, failed, plugs>>
     \/ ~open /\ Fails("info")
     \/ ~open /\ Stop("exception")    \* the time limit

(* --programmacro                                                          *)
Programmable(n) == n \in 2 .. MACRO_MAX_STEPS
ProgramMacro ==
  /\ at = "programmacro"
  /\ \/ ~Programmable(Len(args.steps)) /\ Stop("exit")
     \/ Programmable(Len(args.steps)) /\ serial \notin plugged /\ Stop("exit")
     \/ Programmable(Len(args.steps)) /\ Ask("version")

AnyVersion(major) == TRUE
NewEnough(major) == major >= 2
parse_macro_step(s) == Valid(s.frequency) /\ s.duration >= 30
Version ==
  LET goes == NewEnough(Firmware[serial]) /\ \A i \in 1 .. Len(args.steps) : parse_macro_step(args.steps[i])
  IN /\ at = "version"
     /\ \/ /\ open /\ goes
           /\ open' = FALSE /\ at' = "block0"
           /\ UNCHANGED <<plugged, devs, args, serial, status, failed, plugs>>
        \/ open /\ ~goes /\ Stop("exit")
        \/ ~open /\ Stop("exit")
        \/ ~open /\ Stop("exception")

(* programMacro's three packets                                            *)
MacroBlock(k) ==
  /\ Written([Device EXCEPT !.blocks[k] = pack_macro_block(args.steps, k)])
  /\ Closed /\ UNCHANGED status
Block0 == at = "block0" /\ MacroBlock(0) /\ at' = "block1"
Block1 == at = "block1" /\ MacroBlock(1) /\ at' = "enable"
EnableMacro ==
  /\ at = "enable"
  /\ Written([Device EXCEPT !.flash = [mode |-> "macro", ram |-> Payload(args.steps[1].frequency),
                                       sweep |-> NoSweep]])
  /\ Done("programmacro") /\ Closed

(* --rfstate; when the device does not open, the handler of the exception  *)
(* closes a variable that is not assigned.                                 *)
RfState ==
  /\ at = "rfstate"
  /\ \/ args.rfstate = "read" /\ Ask("rfstate.read")
     \/ args.rfstate = "read" /\ serial \notin plugged /\ Stop("exception")
     \/ /\ args.rfstate \in {"on", "off"}
        /\ Written([Device EXCEPT !.rf = (args.rfstate = "on")])
        /\ Done("rfstate") /\ Closed
     \/ args.rfstate = "other" /\ Done("rfstate") /\ Closed /\ UNCHANGED <<devs, failed>>
RfStateRead ==
  /\ at = "rfstate.read"
  /\ \/ /\ open /\ open' = FALSE /\ Done("rfstate")
        /\ UNCHANGED <<plugged, devs, args, serial, failed, plugs>>
     \/ ~open /\ Fails("rfstate")
     \/ ~open /\ Stop("exception")

Program ==
  \/ Start \/ Write \/ Info \/ InfoRead \/ FlashWrite \/ Identify \/ Erase \/ ProgramSweep
  \/ ProgramMacro \/ Version \/ Block0 \/ Block1 \/ EnableMacro \/ RfState \/ RfStateRead

(* The cables (external)                                                   *)
Unplug(d) ==
  /\ d \in plugged /\ plugs < MaxPlugs /\ at # "end"
  /\ plugged' = plugged \ {d} /\ plugs' = plugs + 1
  /\ open' = (open /\ d # serial) /\ failed' = (failed \/ d = serial)
  /\ UNCHANGED <<devs, args, at, serial, status>>
Plug(d) ==
  /\ d \notin plugged /\ plugs < MaxPlugs /\ at # "end"
  /\ plugged' = plugged \cup {d} /\ plugs' = plugs + 1
  /\ devs' = IF devs[d].flash.mode = "erased" THEN devs
             ELSE [devs EXCEPT ![d].ram = devs[d].flash.ram]
  /\ UNCHANGED <<args, at, serial, open, status, failed>>

Next == Program \/ \E d \in Serials : Unplug(d) \/ Plug(d)

Spec == Init /\ [][Next]_vars

-----------------------------------------------------------------------------
(* Every variable keeps its type; what goes to flash fits its fields.      *)
TypeOK ==
  /\ plugged \subseteq Serials /\ args \in Invocations
  /\ at \in Operations \cup Within \cup {"start", "end"}
  /\ serial \in Serials \cup {None} /\ open \in BOOLEAN /\ failed \in BOOLEAN
  /\ status \in {"running", "done", "exit", "exception"} /\ plugs \in 0 .. MaxPlugs
  /\ \A d \in Serials :
       /\ devs[d].ram \in Registers /\ devs[d].flash \in Flash /\ devs[d].rf \in BOOLEAN
       /\ \A k \in 0 .. 1 : devs[d].blocks[k] \in Block

-----------------------------------------------------------------------------
(* The words in a generator's RAM and flash put out the frequency they     *)
(* were computed for, exactly, with the VCO in its range: the choice of    *)
(* the divider, the fraction and its reduction, and the fields agree       *)
(* (adf4351.cpp:127, rfgen44.py:152).  The frequency stored beside the     *)
(* words is that frequency, or 10 kHz less where the product by 100 falls  *)
(* short (rfgen44.py:254, usbioboard.cpp:1835).                            *)
Agree(r) ==
  \E short \in {0, 1} : Outputs(r.reg, Default.ref, r.frequency + short)
WordsAgree == \A d \in Serials : Agree(devs[d].ram) /\ Agree(devs[d].flash.ram)

(* Programming touches no other generator than the one that was named, or  *)
(* that was the only one when the program looked, and gives no macro to a  *)
(* firmware that has none, whatever is plugged in or out on the way        *)
(* (rfgen44.py:557 and 639).                                               *)
RightDevice ==
  [][\A d \in Serials :
       /\ devs'[d] # devs[d] /\ plugged' = plugged =>
            d = serial /\ args.serial_number \in {d, None}
       /\ devs'[d].blocks # devs[d].blocks => Firmware[d] >= 2
       /\ at = "start" /\ serial' = d /\ args.serial_number = None => plugged = {d}]_vars

(* A program that ends without having reported anything, on a generator    *)
(* that kept its power, has done all it was asked, the later operations on *)
(* top of the earlier ones: in RAM the frequency, in flash what came last, *)
(* and the macro plays as it was given, of whatever was in flash before,   *)
(* with the frequencies exact or 10 kHz below (rfgen44.py:575-661).  Times *)
(* that do not fit their field are left out: they are cut off (61, 295).   *)
MacroAsAsked ==
  LET plays == Played(devs[serial].blocks[0], devs[serial].blocks[1])
      n     == Len(args.steps)
  IN /\ Len(plays) = 2 * n
     /\ \A k \in 1 .. 2 * n :
          LET s == args.steps[((k - 1) % n) + 1]
          IN /\ s.frequency - plays[k].frequency \in {0, 1}
             /\ s.duration < 2^24 => plays[k].step_ms = s.duration
             /\ plays[k].on = s.rf
FlashAsAsked ==
  LET flash == devs[serial].flash
      ops   == args.ops
  IN CASE "programmacro" \in ops -> flash.mode = "macro" /\ MacroAsAsked
       [] "programmacro" \notin ops /\ "programsweep" \in ops ->
            /\ flash.mode = "sweep"
            /\ args.sweep.start - flash.sweep[1] \in {0, 1}
            /\ args.sweep.stop - flash.sweep[2] \in {0, 1}
            /\ args.sweep.step - flash.sweep[3] \in {0, 1}
            /\ args.sweep.ms < 2^16 => flash.sweep[4] = args.sweep.ms
       [] ops \cap {"programmacro", "programsweep", "erase"} = {"erase"} -> flash.mode = "erased"
       [] ops \cap {"programmacro", "programsweep", "erase", "flashwrite"} = {"flashwrite"} ->
            flash.mode = "fixed" /\ Outputs(flash.ram.reg, Default.ref, args.frequency)
       [] OTHER -> TRUE
DoneAsAsked ==
  status = "done" /\ ~failed =>
    /\ "write" \in args.ops => Outputs(devs[serial].ram.reg, Default.ref, args.frequency)
    /\ FlashAsAsked
    /\ "rfstate" \in args.ops =>
         /\ args.rfstate = "on" => devs[serial].rf
         /\ args.rfstate = "off" => ~devs[serial].rf
=============================================================================
