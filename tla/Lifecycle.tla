------------------------------ MODULE Lifecycle ------------------------------
(***************************************************************************)
(* Who brings the device up and down in drv-r8169/r8169_main.c, and what   *)
(* happens when they meet: open and close under the rtnl lock, the work    *)
(* item rtl_task, runtime and system power management, the phy's link      *)
(* handler, shutdown and removal.  A thread is the sequence of the steps   *)
(* it still has to take; a call prepends the steps of what is called.  The *)
(* rtnl lock, the driver and power management cores, the work queue and    *)
(* phylib are external.                                                    *)
(***************************************************************************)
EXTENDS Naturals, Sequences

CONSTANTS
    Is8125,    \* rtl_is_8125: the link handler resets on link down
    MayFail,   \* may the calls of rtl_open fail, and the bus reset of rtl_task?
    MaxOps,    \* bound on open and close
    MaxTasks,  \* bound on rtl_schedule_task
    MaxLinks,  \* bound on the changes of the link
    MaxSleeps  \* bound on runtime and system suspends

ASSUME LifecycleAssumption ==
    /\ Is8125 \in BOOLEAN /\ MayFail \in BOOLEAN
    /\ {MaxOps, MaxTasks, MaxLinks, MaxSleeps} \subseteq Nat

Threads == {"user", "worker", "pm", "phy"}

VARIABLES
    todo,     \* the steps each thread still has to take
    rtnl,     \* who holds the rtnl lock
    running, present, carrier, \* netif_running, netif_device_present, _carrier_ok
    flags, queued, \* wk.flags, and whether wk.work is queued
    ring,     \* the descriptor rings are allocated (TxDescArray)
    irq, napi, hw, \* the handler is installed, NAPI is enabled, the chip runs
    phy,      \* none, stopped, started
    rpm, usage, idle, \* runtime PM: status, usage count, suspend scheduled
    asleep,   \* a system sleep has begun and not ended
    gone,     \* no, shutdown, removed
    bounds

net   == <<running, present, carrier>>
wk    == <<flags, queued>>
dev   == <<ring, irq, napi, hw, phy>>
power == <<rpm, usage, idle, asleep, gone>>
vars  == <<todo, rtnl, net, wk, dev, power, bounds>>

-----------------------------------------------------------------------------
(* rtl_reset_work: stop NAPI, clean up, enable NAPI, start the chip. *)
ResetWork == <<"napi_disable", "clear", "napi_enable", "hw_start">>

MutDownNapi  == <<"clear_flags", "phy_stop", "clear">>
MutDownFlags == <<"phy_stop", "napi_disable", "clear">>

(* rtl8169_down *)
Down == <<"clear_flags", "phy_stop", "napi_disable", "clear">>

MutUp == <<"enable">> \o ResetWork \o <<"phy_start">>

(* rtl8169_up *)
Up == <<"napi_enable", "enable">> \o ResetWork \o <<"phy_start">>

(* rtl_open, inside __dev_open; the steps that may fail name how to unwind. *)
Open ==
    <<"rtnl", "resume_parent", "start", "get", "alloc", "request_irq", "phy_connect">>
      \o Up \o <<"put", "unrtnl">>

Unwind(step) ==
    CASE step = "alloc"       -> <<"stop", "put", "unrtnl">>
      [] step = "request_irq" -> <<"free", "stop", "put", "unrtnl">>
      [] step = "phy_connect" -> <<"free_irq", "free", "stop", "put", "unrtnl">>

MutClose ==
    <<"rtnl", "stop", "get", "clear_flags", "napi_disable", "clear", "cancel_work",
      "free_irq", "phy_disconnect", "free", "put", "unrtnl">>

(* rtl8169_close, inside __dev_close *)
Close ==
    <<"rtnl", "stop", "get">> \o Down
      \o <<"cancel_work", "free_irq", "phy_disconnect", "free", "put", "unrtnl">>

MutTask == <<"test_enabled", "test_flags", "unrtnl">>

(* rtl_task, whose middle is decided by the flags. *)
Task == <<"rtnl", "test_enabled", "test_flags", "unrtnl">>

(* rtl8169_runtime_resume takes no lock; rtl8169_runtime_suspend, suspend and *)
(* resume.                                                                    *)
RuntimeResume  == <<"up", "attach", "active">>
RuntimeSuspend == IF ring THEN <<"rtnl", "detach", "down", "unrtnl", "suspended">>
                  ELSE <<"detach", "suspended">>
Suspend        == <<"rtnl", "detach", "down", "unrtnl">>
Resume         == <<"up", "attach", "awake">>

(* rtl_remove_one, whose unregister_netdev closes the device, and rtl_shutdown; *)
(* the core resumes the device first and keeps it so.                           *)
Remove   == <<"get">> \o (IF running THEN Close ELSE <<>>) \o <<"removed">>
Shutdown == <<"get", "rtnl", "detach", "down", "unrtnl", "shutdown">>

-----------------------------------------------------------------------------
Init ==
    /\ todo = [t \in Threads |-> <<>>] /\ rtnl = "none"
    /\ running = FALSE /\ present = TRUE /\ carrier = FALSE
    /\ flags = {} /\ queued = FALSE
    /\ ring = FALSE /\ irq = FALSE /\ napi = FALSE /\ hw = FALSE /\ phy = "none"
    /\ rpm = "active" /\ usage = 0 /\ idle = FALSE /\ asleep = FALSE /\ gone = "no"
    /\ bounds = [ops |-> 0, tasks |-> 0, links |-> 0, sleeps |-> 0]

Count(b, max)  == bounds[b] < max /\ bounds' = [bounds EXCEPT ![b] = @ + 1]
Idle(t)        == todo[t] = <<>>
Begin(t, prog) == Idle(t) /\ todo' = [todo EXCEPT ![t] = prog]
At(t, step)    == ~Idle(t) /\ Head(todo[t]) = step
Then(t)        == todo' = [todo EXCEPT ![t] = Tail(@)]
ThenCall(t, p) == todo' = [todo EXCEPT ![t] = p \o Tail(@)]
Jump(t, p)     == todo' = [todo EXCEPT ![t] = p]

(* A step that may fail does so with nothing done, and unwinds. *)
Fails(t, step) ==
    /\ At(t, step) /\ MayFail /\ Jump(t, Unwind(step))
    /\ UNCHANGED <<rtnl, net, wk, dev, power, bounds>>

-----------------------------------------------------------------------------
UserOpens ==
    /\ ~running /\ ~asleep /\ gone = "no" /\ Begin("user", Open) /\ Count("ops", MaxOps)
    /\ UNCHANGED <<rtnl, net, wk, dev, power>>

UserCloses ==
    /\ running /\ ~asleep /\ gone = "no" /\ Begin("user", Close) /\ Count("ops", MaxOps)
    /\ UNCHANGED <<rtnl, net, wk, dev, power>>

(* The driver is unbound or the machine goes down: nothing is asked after that. *)
DeviceGoes(prog) ==
    /\ ~asleep /\ gone = "no" /\ Begin("user", prog)
    /\ UNCHANGED <<rtnl, net, wk, dev, power, bounds>>

(* rtl_schedule_task: from the interrupt handler or the transmit watchdog. *)
ScheduleTask(flag) ==
    /\ Count("tasks", MaxTasks)
    /\ IF flag = "reset" THEN irq /\ hw ELSE running /\ present /\ carrier
    /\ flags' = flags \cup {flag} /\ queued' = TRUE
    /\ UNCHANGED <<todo, rtnl, net, dev, power>>

WorkerRuns ==
    /\ queued /\ Begin("worker", Task)
    /\ queued' = FALSE
    /\ UNCHANGED <<rtnl, net, flags, dev, power, bounds>>

(* phylib finds the link up or down and calls r8169_phylink_handler. *)
LinkChanges ==
    /\ phy = "started" /\ Count("links", MaxLinks)
    /\ carrier' = ~carrier
    /\ Begin("phy", IF carrier THEN (IF Is8125 THEN ResetWork ELSE <<>>) \o <<"pm_idle">>
                    ELSE <<"pm_resume">>)
    /\ UNCHANGED <<rtnl, running, present, wk, dev, power>>

(* The power management core; runtime suspend after rtl8169_runtime_idle.  *)
RuntimeSuspends ==
    /\ rpm = "active" /\ usage = 0 /\ idle /\ ~asleep
    /\ Begin("pm", RuntimeSuspend) /\ Count("sleeps", MaxSleeps)
    /\ rpm' = "suspending"
    /\ UNCHANGED <<rtnl, net, wk, dev, usage, idle, asleep, gone>>

RuntimeResumes ==
    /\ rpm = "suspended" /\ Begin("pm", RuntimeResume)
    /\ rpm' = "resuming"
    /\ UNCHANGED <<rtnl, net, wk, dev, usage, idle, asleep, gone, bounds>>

(* A sleep begins with user space frozen and the device resumed. *)
SystemSleeps ==
    /\ Idle("user") /\ rpm = "active" /\ ~asleep /\ gone = "no"
    /\ Begin("pm", Suspend) /\ Count("sleeps", MaxSleeps)
    /\ asleep' = TRUE /\ usage' = usage + 1
    /\ UNCHANGED <<rtnl, net, wk, dev, rpm, idle, gone>>

SystemWakes ==
    /\ asleep /\ Begin("pm", Resume)
    /\ UNCHANGED <<rtnl, net, wk, dev, power, bounds>>

(* rtl8169_runtime_idle: a suspend is scheduled when nothing is connected. *)
RuntimeIdle ==
    /\ rpm = "active" /\ usage = 0 /\ ~idle /\ (~running \/ ~carrier)
    /\ idle' = TRUE
    /\ UNCHANGED <<todo, rtnl, net, wk, dev, rpm, usage, asleep, gone, bounds>>

-----------------------------------------------------------------------------
(* Steps of the locks and of power management. *)
LockStep(t) ==
    \/ /\ At(t, "rtnl") /\ rtnl = "none" /\ rtnl' = t
       /\ Then(t) /\ UNCHANGED power
    \/ /\ At(t, "unrtnl") /\ rtnl' = "none"
       /\ Then(t) /\ UNCHANGED power

(* pm_runtime_get_sync waits for a suspend or resume under way, and resumes a *)
(* suspended device itself; __dev_open resumes one that is not present.       *)
PowerStep(t) ==
    /\ \/ /\ At(t, "get")
          /\ idle' = FALSE /\ UNCHANGED asleep
          /\ \/ rpm = "active" /\ usage' = usage + 1 /\ Then(t) /\ UNCHANGED rpm
             \/ /\ rpm = "suspended" /\ rpm' = "resuming"
                /\ Jump(t, RuntimeResume \o todo[t]) /\ UNCHANGED usage
       \/ /\ At(t, "resume_parent") /\ UNCHANGED <<usage, idle, asleep>>
          /\ \/ /\ ~present /\ rpm = "suspended" /\ rpm' = "resuming"
                /\ Jump(t, RuntimeResume \o todo[t])
             \/ /\ ~present /\ rpm = "active" /\ UNCHANGED rpm
                /\ Jump(t, <<"unrtnl">>)
             \/ present /\ Then(t) /\ UNCHANGED rpm
       \/ /\ At(t, "put") /\ usage' = usage - 1
          /\ Then(t) /\ UNCHANGED <<rpm, idle, asleep>>
       \/ /\ At(t, "active") /\ rpm' = "active" /\ idle' = FALSE
          /\ Then(t) /\ UNCHANGED <<usage, asleep>>
       \/ /\ At(t, "suspended") /\ rpm' = "suspended"
          /\ Then(t) /\ UNCHANGED <<usage, idle, asleep>>
       \/ /\ At(t, "awake") /\ asleep' = FALSE /\ usage' = usage - 1
          /\ Then(t) /\ UNCHANGED <<rpm, idle>>
       \/ /\ At(t, "pm_idle") /\ idle' = (idle \/ (rpm = "active" /\ usage = 0))
          /\ Then(t) /\ UNCHANGED <<rpm, usage, asleep>>
       \/ /\ At(t, "pm_resume") /\ idle' = FALSE
          /\ Then(t) /\ UNCHANGED <<rpm, usage, asleep>>
    /\ UNCHANGED <<rtnl, gone>>

(* Shutdown or removal has ended. *)
GoneStep(t) ==
    /\ \/ At(t, "shutdown") /\ gone' = "shutdown"
       \/ At(t, "removed") /\ gone' = "removed"
    /\ Then(t) /\ UNCHANGED <<rtnl, rpm, usage, idle, asleep>>

(* Steps on the net device.  "up" and "down" are the conditional calls of     *)
(* runtime_resume and net_suspend.                                            *)
NetStep(t) ==
    \/ At(t, "start")  /\ running' = TRUE  /\ Then(t) /\ UNCHANGED <<present, carrier>>
    \/ At(t, "stop")   /\ running' = FALSE /\ Then(t) /\ UNCHANGED <<present, carrier>>
    \/ At(t, "attach") /\ present' = TRUE  /\ Then(t) /\ UNCHANGED <<running, carrier>>
    \/ At(t, "detach") /\ present' = FALSE /\ Then(t) /\ UNCHANGED <<running, carrier>>
    \/ At(t, "up")   /\ ThenCall(t, IF ring THEN Up ELSE <<>>) /\ UNCHANGED net
    \/ At(t, "down") /\ ThenCall(t, IF running THEN Down ELSE <<>>) /\ UNCHANGED net

(* Steps of the work item.  A transmit timeout may find the bus dead. *)
WorkStep(t) ==
    \/ /\ At(t, "clear_flags") /\ flags' = {} /\ Then(t)
       /\ UNCHANGED <<queued, present>>
    \/ /\ At(t, "enable") /\ flags' = flags \cup {"enabled"} /\ Then(t)
       /\ UNCHANGED <<queued, present>>
    \/ /\ At(t, "cancel_work") /\ Idle("worker") /\ queued' = FALSE /\ Then(t)
       /\ UNCHANGED <<flags, present>>
    \/ /\ At(t, "test_enabled")
       /\ IF running /\ "enabled" \in flags THEN Then(t) ELSE Jump(t, <<"unrtnl">>)
       /\ UNCHANGED <<wk, present>>
    \/ /\ At(t, "test_flags") /\ UNCHANGED queued
       /\ \/ /\ "timeout" \in flags /\ MayFail
             /\ flags' = flags \ {"timeout"} /\ present' = FALSE /\ Then(t)
          \/ /\ {"timeout", "reset"} \cap flags # {}
             /\ flags' = flags \ (IF "timeout" \in flags THEN {"timeout"} ELSE {"reset"})
             /\ ThenCall(t, ResetWork) /\ UNCHANGED present
          \/ /\ {"timeout", "reset"} \cap flags = {}
             /\ Then(t) /\ UNCHANGED <<flags, present>>

(* Steps on the device.  napi_disable waits until NAPI is enabled; phy_stop   *)
(* waits for the link handler, and calls it itself if the link was up.        *)
DevStep(t) ==
    /\ \/ At(t, "alloc") /\ ring' = TRUE /\ Then(t) /\ UNCHANGED <<irq, napi, hw, phy>>
       \/ At(t, "free") /\ ring' = FALSE /\ Then(t) /\ UNCHANGED <<irq, napi, hw, phy>>
       \/ At(t, "request_irq") /\ irq' = TRUE /\ Then(t) /\ UNCHANGED <<ring, napi, hw, phy>>
       \/ At(t, "free_irq") /\ irq' = FALSE /\ Then(t) /\ UNCHANGED <<ring, napi, hw, phy>>
       \/ /\ At(t, "napi_disable") /\ napi /\ napi' = FALSE
          /\ Then(t) /\ UNCHANGED <<ring, irq, hw, phy>>
       \/ At(t, "napi_enable") /\ napi' = TRUE /\ Then(t) /\ UNCHANGED <<ring, irq, hw, phy>>
       \/ At(t, "clear") /\ hw' = FALSE /\ Then(t) /\ UNCHANGED <<ring, irq, napi, phy>>
       \/ At(t, "hw_start") /\ hw' = TRUE /\ Then(t) /\ UNCHANGED <<ring, irq, napi, phy>>
       \/ /\ At(t, "phy_connect") /\ phy' = "stopped"
          /\ Then(t) /\ UNCHANGED <<ring, irq, napi, hw>>
       \/ /\ At(t, "phy_start") /\ phy' = "started"
          /\ Then(t) /\ UNCHANGED <<ring, irq, napi, hw>>
       \/ /\ At(t, "phy_disconnect") /\ phy' = "none"
          /\ Then(t) /\ UNCHANGED <<ring, irq, napi, hw>>
    /\ UNCHANGED carrier

PhyStop(t) ==
    /\ At(t, "phy_stop") /\ Idle("phy")
    /\ phy' = "stopped" /\ carrier' = FALSE
    /\ ThenCall(t, IF carrier /\ Is8125 THEN ResetWork ELSE <<>>)
    /\ UNCHANGED <<ring, irq, napi, hw>>

Step(t) ==
    /\ \/ LockStep(t) /\ UNCHANGED <<net, wk, dev>>
       \/ (PowerStep(t) \/ GoneStep(t)) /\ UNCHANGED <<net, wk, dev>>
       \/ NetStep(t) /\ UNCHANGED <<rtnl, wk, dev, power>>
       \/ WorkStep(t) /\ UNCHANGED <<rtnl, running, carrier, dev, power>>
       \/ (DevStep(t) \/ PhyStop(t)) /\ UNCHANGED <<rtnl, running, present, wk, power>>
    /\ UNCHANGED bounds

Next ==
    \/ UserOpens \/ UserCloses \/ DeviceGoes(Remove) \/ DeviceGoes(Shutdown)
    \/ \E flag \in {"reset", "timeout"} : ScheduleTask(flag)
    \/ WorkerRuns \/ LinkChanges
    \/ RuntimeSuspends \/ RuntimeResumes \/ SystemSleeps \/ SystemWakes \/ RuntimeIdle
    \/ \E t \in Threads : Step(t)
    \/ \E step \in {"alloc", "request_irq", "phy_connect"} : Fails("user", step)

Spec == Init /\ [][Next]_vars

-----------------------------------------------------------------------------
(* napi_enable is never called on an instance that is enabled (the kernel's   *)
(* BUG_ON), whoever brings the device up, down and through resets.            *)
NapiEnabledOnce == \A t \in Threads : At(t, "napi_enable") => ~napi

(* Whoever touches the rings or lets a poll touch them finds them allocated:  *)
(* close frees them only once the work, the phy and the interrupt are done.   *)
(* When the driver is removed, and its memory freed with it, nothing of it is *)
(* left: no work queued or running, no handler, no link handler.              *)
RingWhileUsed ==
    /\ napi \/ hw => ring
    /\ \A t \in Threads : At(t, "clear") \/ At(t, "hw_start") => ring
    /\ gone = "removed" => /\ ~queued /\ ~irq /\ ~ring /\ phy = "none"
                          /\ \A t \in Threads : Idle(t)

Resting == (\A t \in Threads : Idle(t)) /\ ~asleep

(* At rest the device is fully up exactly when it is open and neither         *)
(* suspended nor shut down: NAPI enabled, the chip started, the work item     *)
(* allowed, the phy running; and every reference to runtime power is given    *)
(* back, so that the device can sleep.                                        *)
UpOrDown ==
    Resting => LET up == running /\ rpm = "active" /\ gone = "no"
               IN  /\ napi = up /\ hw = up /\ ("enabled" \in flags) = up
                   /\ (phy = "started") = up /\ ring = running /\ irq = running
                   /\ (usage = 0) = (gone = "no")

(* Only one thread at a time takes the rings down and starts them again, save *)
(* for the two that may do so without rtnl: the link handler of an RTL8125    *)
(* and a resume.                                                              *)
Resetting(t) == \E s \in {"clear", "napi_enable", "hw_start"} : At(t, s)
Resuming(t)  == \E i \in DOMAIN todo[t] : todo[t][i] \in {"active", "awake"}
Unlocked(t)  == (t = "phy" /\ Is8125) \/ (rtnl # t /\ Resuming(t))
ResetsExclusive ==
    \A t, u \in Threads :
        Resetting(t) /\ Resetting(u) /\ t # u => Unlocked(t) \/ Unlocked(u)

(* A thread that waits for another. *)
Waits(t) ==
    \/ At(t, "rtnl") /\ rtnl # "none"
    \/ At(t, "get") /\ rpm \in {"suspending", "resuming"}
    \/ At(t, "resume_parent") /\ ~present /\ rpm \in {"suspending", "resuming"}
    \/ At(t, "napi_disable") /\ ~napi
    \/ At(t, "cancel_work") /\ ~Idle("worker")
    \/ At(t, "phy_stop") /\ ~Idle("phy")

(* The two circles of waiting in the code: close holds rtnl and waits in      *)
(* cancel_work_sync for rtl_task, which waits for rtnl; open or close holds   *)
(* rtnl and waits for the runtime suspend, which waits for rtnl.              *)
WorkCircle == rtnl = "user" /\ At("user", "cancel_work") /\ At("worker", "rtnl")
PmCircle   == /\ rtnl = "user" /\ (At("user", "get") \/ At("user", "resume_parent"))
              /\ rpm = "suspending" /\ At("pm", "rtnl")

(* Nobody waits for ever, except in those two circles. *)
NoOtherDeadlock ==
    (\A t \in Threads : Idle(t) \/ Waits(t)) /\ ~(\A t \in Threads : Idle(t))
        => WorkCircle \/ PmCircle
=============================================================================
