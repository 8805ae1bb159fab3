-------------------------------- MODULE Usb ---------------------------------
(***************************************************************************)
(* The OHCI controller and its users: the boot-time search for a storage   *)
(* stick, the "usb" kernel task that finds and polls a boot keyboard and a *)
(* boot mouse, and bot_command, which reads the stick for the file system. *)
(* One lock keeps the two apart: a command suspends the interrupt          *)
(* endpoints and puts them back.                                           *)
(*                                                                         *)
(* The task is preemptible, so every step of it is an action of its own;   *)
(* a device that does not answer, or answers wrongly, is a fault.          *)
(***************************************************************************)
EXTENDS Integers, Sequences, FiniteSets

CONSTANTS
    UsbPorts,     \* ports of the root hub, 1..n
    UsbRigs,      \* what may be plugged in: functions from port to class
    UsbFaults,    \* bound: transfers that fail
    UsbProbes,    \* bound: searches of the service task
    UsbCommands   \* bound: commands to the stick

VARIABLES
    usb,          \* the driver's statics
    hc,           \* the controller: periodic list and interrupt descriptors
    dev,          \* per port: class, address, and what it has to send
    svc,          \* the boot sequence, then the service task
    rd            \* the process in bot_command

usbVars == <<usb, hc, dev, svc, rd>>

NoPort == 0
HidClasses == {"keyboard", "mouse"}
Missing(u) == {c \in HidClasses : u.hid[c] = NoPort}

-----------------------------------------------------------------------------
(* Enumeration: reset, descriptor, address, descriptors, configuration.    *)

(* usb_alloc_address.                                                      *)
UsbAllocAddress(u) == IF u.next > 127 THEN 0 ELSE u.next

(* How far the transfers of one port get.  ohci_reset_port leaves the      *)
(* device at address 0; SET_ADDRESS is the second transfer that counts.    *)
Stages == {"reset", "address", "configured"}
ResetPort(d) == [d EXCEPT !.addr = 0, !.set = FALSE]
Enumerate(d, stage, address) ==
    CASE stage = "reset" -> ResetPort(d)
      [] stage = "address" -> [ResetPort(d) EXCEPT !.addr = address]
      [] stage = "configured" -> [ResetPort(d) EXCEPT !.addr = address, !.set = TRUE]

(* usb_parse_hid_config and usb_parse_mass_storage_config: a configuration *)
(* is set only on a device with the interface looked for.                  *)
StagesFor(class, wanted) == IF class = wanted THEN Stages ELSE Stages \ {"configured"}
Costs(class, wanted, stage) ==
    IF stage = (IF class = wanted THEN "configured" ELSE "address") THEN 0 ELSE 1

-----------------------------------------------------------------------------
(* The periodic schedule.                                                  *)

(* ohci_bind_hcca clears the table the schedule lives in.                  *)
BindHcca(h) == [h EXCEPT !.list = {}]

(* usb_rebuild_periodic_schedule.                                          *)
RebuildPeriodicSchedule(h, u) ==
    LET active == HidClasses \ Missing(u) IN
    IF active = {} THEN h ELSE [h EXCEPT !.list = active, !.ple = TRUE]

(* usb_init_interrupt_ed and usb_..._queue_intr_td.                        *)
QueueIntrTd(h, c) == [h EXCEPT !.td[c] = "queued"]
InitInterruptEd(h, c) == QueueIntrTd([h EXCEPT !.skip = @ \ {c}], c)

(* usb_bus_lock_hid_suspended and usb_bus_unlock_hid_suspended.            *)
SuspendHid(h, u) == [h EXCEPT !.skip = @ \union (HidClasses \ Missing(u))]
ResumeHid(h, u) ==
    [h EXCEPT !.skip = @ \ {c \in HidClasses : u.hid[c] # NoPort /\ c \notin u.wasSkipped}]

-----------------------------------------------------------------------------
UsbInit ==
    /\ \E rig \in UsbRigs :
          dev = [p \in UsbPorts |-> [class |-> rig[p], addr |-> 0, set |-> FALSE, out |-> <<>>]]
    /\ usb = [lock |-> "free", hid |-> [c \in HidClasses |-> NoPort], stick |-> NoPort,
              next |-> 1, active |-> FALSE, probed |-> FALSE, fails |-> 0, retry |-> 1,
              wasSkipped |-> {}, tag |-> 1, diag |-> FALSE, left |-> UsbFaults]
    /\ hc = [ple |-> FALSE, list |-> {}, skip |-> {}, td |-> [c \in HidClasses |-> "none"]]
    /\ svc = [pc |-> "find stick", port |-> 1, pass |-> <<>>, did |-> FALSE, probes |-> UsbProbes]
    /\ rd = [pc |-> "idle", cmd |-> "none", tag |-> 0, data |-> 0, ok |-> FALSE, more |-> 0,
             broken |-> FALSE, left |-> UsbCommands]

Spend(n) == usb.left >= n

(* usb_find_mass_storage, one port: an address is used up whatever comes   *)
(* of it.                                                                  *)
LastPort(p) == p + 1 \notin UsbPorts
FindMassStorage(stage) ==
    LET p == svc.port
        address == UsbAllocAddress(usb)
        there == dev[p].class # "none" /\ address # 0
        cost == Costs(dev[p].class, "stick", stage)
        found == there /\ stage = "configured" IN
    /\ svc.pc = "find stick"
    /\ IF there THEN stage \in StagesFor(dev[p].class, "stick") /\ Spend(cost) ELSE stage = "reset"
    /\ dev' = IF there THEN [dev EXCEPT ![p] = Enumerate(@, stage, address)] ELSE dev
    /\ usb' = IF there THEN [usb EXCEPT !.next = address + 1, !.left = @ - cost,
                                        !.stick = IF found THEN p ELSE @]
              ELSE usb
    /\ hc' = BindHcca(hc)
    /\ svc' = IF found \/ LastPort(p) THEN [svc EXCEPT !.pc = "boot probe", !.port = 1]
              ELSE [svc EXCEPT !.port = @ + 1]
    /\ UNCHANGED rd

-----------------------------------------------------------------------------
(* usb_hid_service_open, called by usb_probe_hid at boot ("boot ...") and  *)
(* by the service task.                                                    *)

OpenBegins(s, h, next) ==
    /\ svc' = [s EXCEPT !.pc = next, !.port = 1, !.did = FALSE,
                        !.pass = SelectSeq(<<"keyboard", "mouse">>, LAMBDA c : c \in Missing(usb))]
    /\ hc' = BindHcca(h)

(* usb_probe_hid and the start of the service.                             *)
BootProbe ==
    /\ svc.pc = "boot probe"
    /\ OpenBegins(svc, hc, "boot open")
    /\ UNCHANGED <<usb, dev, rd>>

(* A probe that tries every port, also the ones in use.                    *)
MutOwnedPort(u, wanted, p) == FALSE
(* The ports usb_hid_service_open leaves alone.                            *)
OwnedPort(u, wanted, p) ==
    \/ u.stick = p
    \/ wanted = "mouse" /\ u.hid["keyboard"] = p
    \/ u.hid["mouse"] = p

(* One port of one pass: a failed attempt gives its address back, a device *)
(* found becomes the keyboard or the mouse.                                *)
HidOpenPort(stage) ==
    LET p == svc.port
        wanted == Head(svc.pass)
        address == UsbAllocAddress(usb)
        tried == dev[p].class # "none" /\ ~OwnedPort(usb, wanted, p)
                   /\ usb.hid[wanted] = NoPort /\ address # 0
        cost == Costs(dev[p].class, wanted, stage)
        found == tried /\ stage = "configured" IN
    /\ svc.pc \in {"boot open", "open"} /\ svc.pass # <<>>
    /\ IF tried THEN stage \in StagesFor(dev[p].class, wanted) /\ Spend(cost) ELSE stage = "reset"
    /\ dev' = IF tried THEN [dev EXCEPT ![p] = Enumerate(@, stage, address)] ELSE dev
    /\ usb' = IF ~tried THEN usb
              ELSE IF found THEN [usb EXCEPT !.next = address + 1, !.hid[wanted] = p, !.fails = 0]
              ELSE [usb EXCEPT !.left = @ - cost]
    /\ hc' = IF found THEN InitInterruptEd(hc, wanted) ELSE hc
    /\ svc' = [svc EXCEPT !.did = @ \/ found,
                          !.port = IF LastPort(p) THEN 1 ELSE p + 1,
                          !.pass = IF LastPort(p) THEN Tail(@) ELSE @]
    /\ UNCHANGED rd

Doubled(ms) == IF ms < 8 THEN 2 * ms ELSE ms
HidOpenEnds ==
    LET boot == svc.pc = "boot open"
        ok == svc.did \/ usb.active IN
    /\ svc.pc \in {"boot open", "open"} /\ svc.pass = <<>>
    /\ usb' = [usb EXCEPT !.active = ok, !.probed = TRUE,
                          !.retry = IF svc.did THEN 1 ELSE IF boot /\ ~ok THEN Doubled(@) ELSE @]
    /\ hc' = IF ok THEN RebuildPeriodicSchedule(hc, usb') ELSE hc
    /\ svc' = [svc EXCEPT !.pc = IF boot THEN "top" ELSE "poll"]
    /\ UNCHANGED <<dev, rd>>

-----------------------------------------------------------------------------
(* usb_service_main.                                                       *)

(* usb_bus_try_lock; whether usb_hid_probe_due is up to the clock.         *)
ServiceTop(due) ==
    LET open == due /\ Missing(usb) # {} /\ svc.probes > 0 IN
    /\ svc.pc = "top"
    /\ IF usb.lock # "free"
       THEN ~due /\ svc' = [svc EXCEPT !.pc = "sleep"] /\ UNCHANGED <<usb, hc>>
       ELSE /\ usb' = [usb EXCEPT !.lock = "service", !.retry = IF open THEN Doubled(@) ELSE @]
            /\ IF open THEN OpenBegins([svc EXCEPT !.probes = @ - 1], hc, "open")
               ELSE svc' = [svc EXCEPT !.pc = "poll"] /\ UNCHANGED hc
    /\ UNCHANGED <<dev, rd>>

(* usb_keyboard_poll_once: three failures in a row are retried.            *)
KeyboardPoll(u, h) ==
    CASE u.hid["keyboard"] = NoPort \/ h.td["keyboard"] \notin {"ok", "bad"} -> [u |-> u, h |-> h]
      [] u.hid["keyboard"] # NoPort /\ h.td["keyboard"] = "ok" ->
             [u |-> [u EXCEPT !.fails = 0], h |-> QueueIntrTd(h, "keyboard")]
      [] u.hid["keyboard"] # NoPort /\ h.td["keyboard"] = "bad" /\ u.fails < 3 ->
             [u |-> [u EXCEPT !.fails = @ + 1],
              h |-> RebuildPeriodicSchedule(QueueIntrTd(h, "keyboard"), u)]
      [] OTHER ->
             LET gone == [u EXCEPT !.hid["keyboard"] = NoPort, !.fails = 0] IN
             [u |-> gone, h |-> RebuildPeriodicSchedule(h, gone)]

(* usb_mouse_poll_once, with the service active: one failure is final.     *)
MousePoll(u, h) ==
    CASE u.hid["mouse"] = NoPort \/ h.td["mouse"] \notin {"ok", "bad"} -> [u |-> u, h |-> h]
      [] u.hid["mouse"] # NoPort /\ h.td["mouse"] = "ok" -> [u |-> u, h |-> QueueIntrTd(h, "mouse")]
      [] OTHER ->
             LET gone == [u EXCEPT !.hid["mouse"] = NoPort] IN
             [u |-> gone, h |-> RebuildPeriodicSchedule(h, gone)]
ServicePoll(c) ==
    LET r == IF ~usb.active THEN [u |-> usb, h |-> hc]
             ELSE IF c = "keyboard" THEN KeyboardPoll(usb, hc) ELSE MousePoll(usb, hc) IN
    /\ svc.pc = (IF c = "keyboard" THEN "poll" ELSE "poll mouse")
    /\ usb' = (IF c = "keyboard" THEN r.u ELSE [r.u EXCEPT !.lock = "free"])
    /\ hc' = r.h
    /\ svc' = [svc EXCEPT !.pc = IF c = "keyboard" THEN "poll mouse" ELSE "sleep"]
    /\ UNCHANGED <<dev, rd>>
ServiceWakes ==
    /\ svc.pc = "sleep"
    /\ svc' = [svc EXCEPT !.pc = "top"]
    /\ UNCHANGED <<usb, hc, dev, rd>>

(* The controller runs an interrupt transfer that is queued and listed.    *)
Listening(c) == hc.ple /\ c \in hc.list /\ c \notin hc.skip /\ hc.td[c] # "none"
Report(c, how) ==
    /\ Listening(c) /\ hc.td[c] = "queued"
    /\ how = "bad" => Spend(1)
    /\ hc' = [hc EXCEPT !.td[c] = how]
    /\ usb' = IF how = "bad" THEN [usb EXCEPT !.left = @ - 1] ELSE usb
    /\ UNCHANGED <<dev, svc, rd>>

(* /bin/usbmouse with no mouse there: usb_find_ohci_mouse takes no lock,   *)
(* resets every port it finds something on and clears the schedule, then   *)
(* restores the registers it saved.                                        *)
UsbMouseCommand ==
    /\ svc.pc \notin {"find stick", "boot probe", "boot open"}
    /\ Missing(usb) # {} /\ usb.hid["mouse"] = NoPort /\ ~usb.diag /\ Spend(1)
    /\ \A p \in UsbPorts : dev[p].class # "mouse"
    /\ dev' = [p \in UsbPorts |-> IF dev[p].class = "none" THEN dev[p]
                                  ELSE [ResetPort(dev[p]) EXCEPT !.addr = 1]]
    /\ hc' = BindHcca(hc)
    /\ usb' = [usb EXCEPT !.diag = TRUE, !.left = @ - 1]
    /\ UNCHANGED <<svc, rd>>

-----------------------------------------------------------------------------
(* bot_command.  The stick answers a command it got with its data and a    *)
(* status, both marked with the tag; what nobody read stays to be sent.    *)

HasData(cmd) == cmd # "ready"
ScsiCommand(cmd) ==
    /\ rd.pc = "idle" /\ rd.left > 0 /\ usb.stick # NoPort
    /\ cmd = "sense" <=> (rd.cmd = "ready" /\ ~rd.ok)
    /\ rd' = [rd EXCEPT !.pc = "lock", !.cmd = cmd, !.tag = usb.tag, !.data = 0, !.ok = FALSE,
                        !.more = IF cmd = "read" THEN 1 ELSE 0, !.left = @ - 1]
    /\ usb' = [usb EXCEPT !.tag = @ + 1]
    /\ UNCHANGED <<hc, dev, svc>>
BotLocks ==
    /\ rd.pc = "lock" /\ usb.lock = "free"
    /\ usb' = [usb EXCEPT !.lock = "reader", !.wasSkipped = hc.skip \ Missing(usb)]
    /\ hc' = SuspendHid(hc, usb)
    /\ rd' = [rd EXCEPT !.pc = "cbw"]
    /\ UNCHANGED <<dev, svc>>

(* The way out of bot_command; usb_storage_block_read goes on with the     *)
(* next sectors of a read.                                                 *)
BotEnds(ok, cost) ==
    LET again == ok /\ rd.more > 0 IN
    /\ rd' = [rd EXCEPT !.pc = IF again THEN "lock" ELSE "idle", !.ok = ok,
                        !.more = IF again THEN @ - 1 ELSE 0,
                        !.tag = IF again THEN usb.tag ELSE @,
                        !.broken = @ \/ ~ok]
    /\ usb' = [usb EXCEPT !.lock = "free", !.wasSkipped = {}, !.tag = IF again THEN @ + 1 ELSE @,
                          !.left = @ - cost]
    /\ hc' = ResumeHid(hc, usb)

(* Reached: the stick still has the address the driver uses.               *)
Reached == dev[usb.stick].set
BotCbw(ok) ==
    /\ rd.pc = "cbw"
    /\ IF ok
       THEN /\ Reached
            /\ dev' = [dev EXCEPT ![usb.stick].out =
                          @ \o (IF HasData(rd.cmd) THEN <<<<"data", rd.tag>>>> ELSE <<>>)
                            \o <<<<"status", rd.tag>>>>]
            /\ rd' = [rd EXCEPT !.pc = IF HasData(rd.cmd) THEN "data" ELSE "csw"]
            /\ UNCHANGED <<usb, hc>>
       ELSE Spend(1) /\ BotEnds(FALSE, 1) /\ UNCHANGED dev
    /\ UNCHANGED svc
BotDataIn(ok) ==
    /\ rd.pc = "data"
    /\ IF ok
       THEN /\ Reached /\ dev[usb.stick].out # <<>>
            /\ dev' = [dev EXCEPT ![usb.stick].out = Tail(@)]
            /\ rd' = [rd EXCEPT !.pc = "csw", !.data = Head(dev[usb.stick].out)[2]]
            /\ UNCHANGED <<usb, hc>>
       ELSE Spend(1) /\ BotEnds(FALSE, 1) /\ UNCHANGED dev
    /\ UNCHANGED svc

(* A status accepted whatever its tag.                                     *)
MutGoodCsw(item, tag) == item[1] = "status"
GoodCsw(item, tag) == item = <<"status", tag>>
BotCsw(ok) ==
    /\ rd.pc = "csw"
    /\ IF ok
       THEN /\ Reached /\ dev[usb.stick].out # <<>>
            /\ dev' = [dev EXCEPT ![usb.stick].out = Tail(@)]
            /\ BotEnds(GoodCsw(Head(dev[usb.stick].out), rd.tag), 0)
       ELSE Spend(1) /\ BotEnds(FALSE, 1) /\ UNCHANGED dev
    /\ UNCHANGED svc

UsbNext ==
    \/ \E stage \in Stages : FindMassStorage(stage) \/ HidOpenPort(stage)
    \/ BootProbe
    \/ HidOpenEnds
    \/ \E due \in BOOLEAN : ServiceTop(due)
    \/ \E c \in HidClasses : ServicePoll(c)
    \/ \E c \in HidClasses : \E how \in {"ok", "bad"} : Report(c, how)
    \/ ServiceWakes
    \/ UsbMouseCommand
    \/ \E cmd \in {"inquiry", "ready", "sense", "read"} : ScsiCommand(cmd)
    \/ BotLocks
    \/ \E ok \in BOOLEAN : BotCbw(ok) \/ BotDataIn(ok) \/ BotCsw(ok)

UsbSpec == UsbInit /\ [][UsbNext]_usbVars

-----------------------------------------------------------------------------
(* Whenever nobody holds the bus, the keyboard and the mouse in use are    *)
(* being listened to: in the list the controller walks, not skipped, with  *)
(* a transfer queued or an answer to collect.  Suspending them for a       *)
(* command, losing one of them and searching for the other all leave it    *)
(* so; only /bin/usbmouse, which takes no lock, does not.                  *)
HidListens ==
    usb.lock = "free" /\ svc.pc \in {"top", "sleep"} /\ ~usb.diag =>
        \A c \in HidClasses \ Missing(usb) : Listening(c)

(* A search of the service task touches no port that is in use, so it      *)
(* cannot take the address from the mounted stick or from the other HID    *)
(* device: "skips the already-mounted USB-storage port and already-active  *)
(* HID ports" (docs/boot.md).                                              *)
SearchStep ==
    svc.pc = "open" /\ svc.pass # <<>> /\ svc' # svc =>
        \A p \in {usb.stick, usb.hid["keyboard"], usb.hid["mouse"]} \ {NoPort} : dev'[p] = dev[p]
SearchLeavesOwned == [][SearchStep]_usbVars

(* A command that succeeds got the data the stick sent for that command,   *)
(* also after commands that broke off and left answers behind.             *)
DataOfOwnCommand == rd.pc = "idle" /\ rd.ok /\ HasData(rd.cmd) => rd.data = rd.tag
====
