------------------------------ MODULE BtVendor ------------------------------
(***************************************************************************)
(* The Bluetooth vendor library (wpan/libbt): the operations of            *)
(* bt_vendor-ti.c, the firmware configuration machine of hardware-ti.c,    *)
(* the UART of userial-ti.c and the power switch of upio-ti.c.             *)
(*                                                                         *)
(* The stack above calls ti_op; every HCI command the library transmits is *)
(* answered later by a completion event, delivered to hw_config_cback.     *)
(* The stack's order of calls (power, open, configure, close) and the      *)
(* controller's answers are the environment, taken from how the library    *)
(* uses them.  What the library asks of the UART and of the power switch   *)
(* may fail, and it does not look at the outcome.                          *)
(***************************************************************************)
EXTENDS Naturals, Sequences

CONSTANTS Scripts,      \* firmware scripts (.bts): sequences of action types
          MaxSessions,  \* bound: power-ups in a behaviour
          Faults        \* what may go wrong in the environment

\* Action types: a command to send, the wait for its event, the two commands
\* the library leaves out, and the ones it passes over.
ActionType == {"send", "wait", "baud", "sleep", "remarks"}

ASSUME BtVendorAssumption ==
    /\ Scripts \subseteq Seq(ActionType)
    /\ MaxSessions \in Nat
    /\ Faults \subseteq {"status", "alloc", "load", "xmit",
                         "uart", "power", "open"}

VARIABLES cbacks,    \* bt_vendor_cbacks is set
          session,   \* where the stack is: "down", "powered", "open", "closed"
          sessions,  \* power-ups so far
          hostBaud,  \* speed of the host's UART
          ctrlBaud,  \* speed of the controller's UART
          power,     \* the controller has power
          missed,    \* history: a change of speed or of power asked for since
                     \* the last reset of the controller did not happen
          state,     \* hw_cfg_cb.state
          waiting,   \* a transmitted command awaits its completion
          fw,        \* hw_cfg_cb.fw_data: "null", "allocated", "freed", "freedTwice"
          script,    \* what the buffer holds
          pos,       \* the action cur_action points at
          xmitted,   \* positions of the commands of the script sent
          cut,       \* history: a failed transmission ended the download
          results,   \* fwcfg_cb calls of this session
          sco        \* scocfg_cb calls since the last SCO_CFG

uartVars == <<hostBaud, ctrlBaud, power, missed>>
stackVars == <<cbacks, session, sessions>>
fwVars == <<fw, script, pos, xmitted, cut>>
cfgVars == <<state, waiting, results>>
vars == <<uartVars, stackVars, fwVars, cfgVars, sco>>

Idle == "0"
State == {Idle, "START", "SET_UART_BAUD", "READ_BD_ADDR", "SET_BD_ADDR",
          "READ_LOCAL_VER", "DOWNLOAD", "hung"}

Init ==
    /\ cbacks = FALSE /\ session = "down" /\ sessions = 0
    /\ hostBaud = "default" /\ ctrlBaud = "default"
    /\ power = FALSE /\ missed = FALSE
    /\ state = Idle /\ waiting = FALSE /\ results = <<>>
    /\ fw = "null" /\ script = <<>> /\ pos = 1 /\ xmitted = <<>> /\ cut = FALSE
    /\ sco = <<>>

Fault(f) == f \in Faults

-----------------------------------------------------------------------------
(* The firmware script                                                     *)

\* Mutant of SkipHciCommand: the last action is not looked at.
SkipHciCommandShort(s, p) == p + 1 < Len(s) /\ s[p + 1] = "wait"

\* skip_hci_command moves past the command at p only if its wait follows.
SkipHciCommand(s, p) == p < Len(s) /\ s[p + 1] = "wait"

\* Mutant of NextCommand: an action of another type ends the script.
NextCommandStops(s) ==
    LET walk[p \in 1..(Len(s) + 1)] ==
          IF p = Len(s) + 1 THEN p
          ELSE CASE s[p] = "send" -> p
                 [] s[p] = "wait" -> walk[p + 1]
                 [] s[p] = "remarks" -> Len(s) + 1
                 [] OTHER -> IF SkipHciCommand(s, p) THEN walk[p + 1] ELSE 0
    IN  walk

\* hw_download_firmware up to the transmission: hw_download_firmware_helper
\* passes over what is not a command; baud rate and sleep mode commands are
\* skipped, and if that does not work the pointer stays and the loop never ends
\* (0).  The type read behind the last action is taken not to be a command's.
NextCommand(s) ==
    LET walk[p \in 1..(Len(s) + 1)] ==
          IF p = Len(s) + 1 THEN p
          ELSE CASE s[p] = "send" -> p
                 [] s[p] \in {"wait", "remarks"} -> walk[p + 1]
                 [] OTHER -> IF SkipHciCommand(s, p) THEN walk[p + 1] ELSE 0
    IN  walk

-----------------------------------------------------------------------------
(* hardware-ti.c: hw_config_cback.  Each operator is a piece of the handler *)
(* from some point to its end; the completion's buffer is always freed.     *)

Freed(b) == CASE b = "allocated" -> "freed"
              [] b = "null"      -> "null"
              [] OTHER           -> "freedTwice"

\* Mutant of Abort: keeps the buffer.
AbortKeepsFw(b) ==
    /\ fw' = b
    /\ results' = Append(results, "FAIL")
    /\ state' = Idle
    /\ waiting' = FALSE
    /\ UNCHANGED <<script, pos, xmitted, cut, sco>>

\* "vendor lib fwcfg aborted", with fw_data pointing at b
Abort(b) ==
    /\ fw' = Freed(b)
    /\ results' = Append(results, "FAIL")
    /\ state' = Idle
    /\ waiting' = FALSE
    /\ UNCHANGED <<script, pos, xmitted, cut, sco>>

\* A transmitted command; the state is set before the transmission.
Sent(st) ==
    /\ state' = st
    /\ waiting' = TRUE
    /\ UNCHANGED <<fwVars, results, sco>>

ReadLocalVersion == Sent("READ_LOCAL_VER") \/ (Fault("xmit") /\ Abort(fw))

SetBdAddr == Sent("SET_BD_ADDR")
ReadBdAddr == Sent("READ_BD_ADDR")

\* The address read is null or not; a write that cannot be sent is passed over.
ReadBdAddrDone ==
    \/ SetBdAddr
    \/ ReadLocalVersion

\* A read of the address that cannot be sent counts as answered.
UartBaudDone == ReadBdAddr \/ (Fault("xmit") /\ ReadBdAddrDone)

\* scocfg_cb(FAIL) for each of n commands that gets no buffer
ScoFailures(n) == {[i \in 1..k |-> "FAIL"] :
                        k \in IF Fault("alloc") THEN 0..n ELSE {0}}

\* Mutant of DownloadEnd: the state is not reset.
DownloadEndStays ==
    /\ fw' = Freed("allocated")
    /\ \E f \in ScoFailures(2) : sco' = sco \o f
    /\ results' = Append(results, "SUCCESS")
    /\ state' = "DOWNLOAD_END"
    /\ waiting' = FALSE

\* HW_CFG_DOWNLOAD_END: free the script, send the two codec commands, report.
DownloadEnd ==
    /\ fw' = Freed("allocated")
    /\ \E f \in ScoFailures(2) : sco' = sco \o f
    /\ results' = Append(results, "SUCCESS")
    /\ state' = Idle
    /\ waiting' = FALSE

\* HW_CFG_DOWNLOAD at position p of script s, with the commands in "done" sent.
\* A command that cannot be transmitted ends the download like the last one.
Download(s, p, done) ==
    LET q == NextCommand(s)[p] IN
    /\ script' = s
    /\ pos' = IF q \in 1..Len(s) THEN q + 1 ELSE p
    /\ \/ /\ q = 0
          /\ state' = "hung"
          /\ waiting' = FALSE
          /\ fw' = "allocated"
          /\ xmitted' = done
          /\ cut' = FALSE
          /\ UNCHANGED <<results, sco>>
       \/ /\ q \in 1..Len(s)
          /\ state' = "DOWNLOAD"
          /\ waiting' = TRUE
          /\ fw' = "allocated"
          /\ xmitted' = Append(done, q)
          /\ cut' = FALSE
          /\ UNCHANGED <<results, sco>>
       \/ /\ q = Len(s) + 1 \/ (q # 0 /\ Fault("xmit"))
          /\ xmitted' = done
          /\ cut' = (q # Len(s) + 1)
          /\ DownloadEnd

\* hw_config_load_bts and, if it works, the first command.  It fails with
\* fw_data as it was (no file), null (no memory) or allocated (read error).
ReadLocalVerDone ==
    \/ \E s \in Scripts : Download(s, 1, <<>>)
    \/ Fault("load") /\ \E b \in {fw, "null", "allocated"} : Abort(b)

\* The completion event has status 0 and there is a buffer for a command.
Proceed ==
    \/ state = "START" /\ Sent("SET_UART_BAUD")
    \/ state = "START" /\ Fault("xmit") /\ Abort(fw)
    \/ state = "SET_UART_BAUD" /\ UartBaudDone
    \/ state = "READ_BD_ADDR" /\ ReadBdAddrDone
    \/ state = "SET_BD_ADDR" /\ ReadLocalVersion
    \/ state = "READ_LOCAL_VER" /\ ReadLocalVerDone
    \/ state = "DOWNLOAD" /\ Download(script, pos, xmitted)

\* userial_vendor_set_baud, in the handler of the answer to the baud command.
\* It gives up (tcsetattr) or goes on (ioctl) when the port refuses; nobody
\* looks at what it returns and the next command is sent either way.
SetHostBaud ==
    \/ state # "SET_UART_BAUD" /\ UNCHANGED <<hostBaud, missed>>
    \/ /\ state = "SET_UART_BAUD"
       /\ hostBaud' = "target"
       /\ UNCHANGED missed
    \/ /\ state = "SET_UART_BAUD"
       /\ Fault("uart")
       /\ missed' = TRUE
       /\ UNCHANGED hostBaud

\* Commands and answers pass: the controller runs, at the speed of the host.
Reachable == power /\ hostBaud = ctrlBaud

\* The speed of the controller once it has carried out the command sent.
SpeedAsked == IF state = "SET_UART_BAUD" THEN "target" ELSE ctrlBaud

\* A command completes with status 0: the controller has changed its speed if
\* that was asked.
CommandDone ==
    /\ waiting
    /\ cbacks
    /\ Reachable
    /\ ctrlBaud' = SpeedAsked
    /\ \/ Proceed /\ SetHostBaud
       \/ Fault("alloc") /\ Abort(fw) /\ UNCHANGED <<hostBaud, missed>>
    /\ UNCHANGED <<stackVars, power>>

\* Mutants of CommandFailed: the failure is passed over, or reported while the
\* command is sent again.
CommandFailedSilent ==
    /\ Fault("status")
    /\ waiting
    /\ cbacks
    /\ Reachable
    /\ waiting' = FALSE
    /\ UNCHANGED <<stackVars, uartVars, fwVars, state, results, sco>>

CommandFailedRetries ==
    /\ Fault("status")
    /\ waiting
    /\ cbacks
    /\ Reachable
    /\ results' = Append(results, "FAIL")
    /\ UNCHANGED <<stackVars, uartVars, fwVars, state, waiting, sco>>

CommandFailed ==
    /\ Fault("status")
    /\ waiting
    /\ cbacks
    /\ Reachable
    /\ Abort(fw)
    /\ UNCHANGED <<stackVars, uartVars>>

\* A completion after ti_cleanup: the machine stops and reports to nobody.
CommandOrphaned ==
    /\ waiting
    /\ ~cbacks
    /\ Reachable
    /\ ctrlBaud' \in {ctrlBaud, SpeedAsked}
    /\ state' = Idle
    /\ waiting' = FALSE
    /\ UNCHANGED <<stackVars, hostBaud, power, missed, fwVars, results, sco>>

-----------------------------------------------------------------------------
(* bt_vendor-ti.c: the operations, in the order in which the stack uses them *)

TiInit ==
    /\ ~cbacks
    /\ session = "down"
    /\ sessions < MaxSessions
    /\ cbacks' = TRUE
    /\ UNCHANGED <<session, sessions, uartVars, fwVars, cfgVars, sco>>

TiCleanup ==
    /\ cbacks
    /\ cbacks' = FALSE
    /\ UNCHANGED <<session, sessions, uartVars, fwVars, cfgVars, sco>>

\* What upio_set_bluetooth_power may do: rfkill takes the write or not.
Switched == {TRUE, ~Fault("power")}

\* BT_VND_OP_POWER_CTRL, on: off first, so that the controller is reset.  Both
\* may fail, and ti_op looks at neither.
PowerOn ==
    /\ cbacks
    /\ session = "down"
    /\ sessions < MaxSessions
    /\ sessions' = sessions + 1
    /\ session' = "powered"
    /\ \E off, on \in Switched :
          LET kept == power /\ ~off IN
          /\ power' = (on \/ kept)
          /\ ctrlBaud' = IF kept THEN ctrlBaud ELSE "default"
          /\ missed' = (~on \/ kept)
    /\ results' = <<>>
    /\ UNCHANGED <<cbacks, hostBaud, fwVars, state, waiting, sco>>

\* Mutant of UserialOpen: the speed of the previous session is kept.
UserialOpenKeepsBaud ==
    /\ session = "powered"
    /\ session' = "open"
    /\ UNCHANGED <<cbacks, sessions, uartVars, fwVars, cfgVars, sco>>

\* BT_VND_OP_USERIAL_OPEN: userial_vendor_open sets the default speed.  If
\* that fails nobody notices; if there is no port, the stack gets no
\* descriptor and gives up the session.
UserialOpen ==
    /\ session = "powered"
    /\ \/ /\ session' = "open"
          /\ hostBaud' = "default"
          /\ UNCHANGED missed
       \/ /\ Fault("uart")
          /\ session' = "open"
          /\ missed' = TRUE
          /\ UNCHANGED hostBaud
       \/ /\ Fault("open")
          /\ session' = "closed"
          /\ UNCHANGED <<hostBaud, missed>>
    /\ UNCHANGED <<cbacks, sessions, ctrlBaud, power, fwVars, cfgVars, sco>>

\* BT_VND_OP_FW_CFG: hw_config_start, until a session has its report.  The
\* outcome of the transmission is not looked at.
HwConfigStart ==
    /\ session = "open"
    /\ cbacks
    /\ ~waiting
    /\ results = <<>>
    /\ state # "hung"
    /\ \/ /\ state' = "START"
          /\ waiting' \in {TRUE, ~Fault("xmit")}
          /\ UNCHANGED results
       \/ /\ Fault("alloc")
          /\ state' = Idle
          /\ results' = Append(results, "FAIL")
          /\ UNCHANGED waiting
    /\ UNCHANGED <<stackVars, uartVars, fwVars, sco>>

\* BT_VND_OP_SCO_CFG: hw_configure_sco, three commands, then success
HwConfigureSco ==
    /\ session = "open"
    /\ cbacks
    /\ results = <<"SUCCESS">>
    /\ \E f \in ScoFailures(3) : sco' = f \o <<"SUCCESS">>
    /\ UNCHANGED <<stackVars, uartVars, fwVars, cfgVars>>

\* BT_VND_OP_USERIAL_CLOSE: hci_tty_fd is closed, in the middle of a
\* configuration too.  Nothing is received afterwards: the machine stays in its
\* state, although the controller may have carried out the last command.
UserialClose ==
    /\ session = "open"
    /\ session' = "closed"
    /\ waiting' = FALSE
    /\ \/ UNCHANGED ctrlBaud
       \/ waiting /\ Reachable /\ ctrlBaud' = SpeedAsked
    /\ UNCHANGED <<cbacks, sessions, hostBaud, power, missed, fwVars, state,
                   results, sco>>

\* BT_VND_OP_POWER_CTRL, off; a failure is passed over
PowerOff ==
    /\ session = "closed"
    /\ session' = "down"
    /\ \E off \in Switched : power' = (power /\ ~off)
    /\ ctrlBaud' = IF power' THEN ctrlBaud ELSE "default"
    /\ sco' = <<>>
    /\ UNCHANGED <<cbacks, sessions, hostBaud, missed, fwVars, cfgVars>>

Controller == CommandDone \/ CommandFailed \/ CommandOrphaned

Next == \/ Controller
        \/ TiInit \/ TiCleanup \/ PowerOn \/ UserialOpen \/ HwConfigStart
        \/ HwConfigureSco \/ UserialClose \/ PowerOff

\* The controller answers every command it receives; the stack may stop
\* calling.
Spec == Init /\ [][Next]_vars
FairSpec == Spec /\ WF_vars(Controller)

-----------------------------------------------------------------------------
(* Properties                                                              *)

TypeOK ==
    /\ cbacks \in BOOLEAN /\ waiting \in BOOLEAN
    /\ power \in BOOLEAN /\ missed \in BOOLEAN
    /\ session \in {"down", "powered", "open", "closed"}
    /\ sessions \in 0..MaxSessions
    /\ hostBaud \in {"default", "target"} /\ ctrlBaud \in {"default", "target"}
    /\ state \in State
    /\ fw \in {"null", "allocated", "freed", "freedTwice"}
    /\ script \in Seq(ActionType)
    /\ pos \in 1..(Len(script) + 1)
    /\ cut \in BOOLEAN
    /\ results \in Seq({"SUCCESS", "FAIL"})
    /\ sco \in Seq({"SUCCESS", "FAIL"})

\* Whenever an answer is awaited the controller has power and both ends of the
\* UART run at the same speed, or the answer never arrives: the host follows
\* the controller in the same handler, and a new session starts both at the
\* default, whatever the one before has left, even if it was closed in the
\* middle of its configuration.  The exception is a change of speed or of power
\* that failed since the last reset: the library goes on and waits.
BaudAgree == waiting => Reachable \/ missed

\* fwcfg_cb is called at most once for a FW_CFG, on every mixture of refused
\* commands, missing buffers and failed transmissions.
OneResult == Len(results) <= 1 /\ (waiting => results = <<>>)

\* The commands the controller is to get: those of the script without the baud
\* rate and sleep mode ones.
Commands(s) == {i \in DOMAIN s : s[i] = "send"}

\* FW_CFG reports success only when every command of the script that is not
\* left out has been sent, in order.  The one exception: a command that could
\* not be transmitted ends the download, and that is reported as success too.
SuccessMeansDownloaded ==
    (results = <<"SUCCESS">> /\ ~cut) =>
        /\ {xmitted[i] : i \in DOMAIN xmitted} = Commands(script)
        /\ \A i, j \in DOMAIN xmitted : i < j => xmitted[i] < xmitted[j]

\* Every command that the library leaves out is waited for.
WaitsFollow(s) == \A i \in DOMAIN s :
    s[i] \in {"baud", "sleep"} => i < Len(s) /\ s[i + 1] = "wait"

\* The download loop hangs only on scripts that leave out a command without a
\* wait behind it; the wait may be the last action, as in the shipped script.
HangsOnlyUnwaited == state = "hung" => ~WaitsFollow(script)

\* The configuration ends with a report, unless the library is cleaned up or
\* the port closed under it, the script hangs it or the controller is out of
\* reach.  The library has no timeout of its own: that last wait only ends with
\* the session.
ConfigEnds ==
    waiting ~> \/ results # <<>> \/ ~cbacks \/ session # "open"
               \/ state = "hung" \/ ~Reachable

\* The first configuration has freed its buffer when it reports, on success and
\* on every way to abort; a buffer is freed again only where a later one
\* aborts, for fw_data still has the value of the one before.
FwBalanced ==
    /\ sessions <= 1 /\ results # <<>> => fw # "allocated"
    /\ fw = "freedTwice" => sessions > 1 /\ results # <<"SUCCESS">>
=============================================================================
