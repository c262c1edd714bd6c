----------------------------- MODULE RpcListner ------------------------------
(***************************************************************************)
(* One RPC listener (struct rpc_listner_s of kern/rpc.h): the ring that    *)
(* remote senders fill, the "pending" word that announces it, the          *)
(* "handled" word that names the consuming thread, and the RPC threads of  *)
(* the CPUs that serve it (kern/rpc.c, kern/remote_fifo.c).  With one CPU  *)
(* this is the private listener of a CPU, with several the listener of a   *)
(* cluster.  RPC threads are not preemptable: a CPU runs one of them until *)
(* it waits on rpc_wq or its handler sleeps.  Stores to different words    *)
(* are separate steps, which the other CPUs interleave with.               *)
(* Every caller in the kernel sends with RPC_PRIO_NRML, so the ring of     *)
(* RPC_PRIO_LAZY stays empty and is left out.                              *)
(***************************************************************************)
EXTENDS Integers, Sequences, FiniteSets, SequencesExt

CONSTANTS
    Msgs,       \* the RPCs, each sent by a thread of its own
    Repeated,   \* the ones that are sent again and again
    Blocking,   \* the RPCs whose handler may sleep
    Cpus,       \* the CPUs that serve the listener
    Threads,    \* the RPC threads that memory allows to be created
    CpuOf,      \* the CPU of each thread
    First,      \* the thread that thread_idle creates on each CPU at boot
    SlotNr,     \* CONFIG_RPC_FIFO_SLOT_NR
    RemoteWake, \* those whose sleeping handler other CPUs may wake too
    UintNr,     \* rpc_working_thread counts modulo UintNr (2^32)
    None

ASSUME RpcAssumption ==
    /\ IsFiniteSet(Msgs) /\ Msgs # {} /\ Blocking \cup Repeated \cup RemoteWake \subseteq Msgs
    /\ CpuOf \in [Threads -> Cpus] /\ First \in [Cpus -> Threads]
    /\ \A c \in Cpus : CpuOf[First[c]] = c
    /\ SlotNr \in Nat /\ SlotNr > 1 /\ UintNr \in Nat /\ UintNr > Cardinality(Threads)
    /\ None \notin Threads \cup Msgs \cup Nat

VARIABLES
    tbl, wridx, rdidx,  \* the ring
    pending, handled,   \* the two words of the listener
    pc, slot, got,      \* an RPC thread: where it is, the slot and the RPC it took
    run, runq, wq,      \* per CPU: current RPC thread, ready ones, rpc_wq
    working, loaded,    \* rpc_working_thread, and the value a remote waker has read
    spc, response,      \* a sender: where it is, and rpc->response
    runs                \* how many times the handler of the current RPC was started

ring    == <<tbl, wridx, rdidx>>
words   == <<pending, handled>>
threads == <<pc, slot, got>>
cpus    == <<run, runq, wq, working, loaded>>
senders == <<spc, response, runs>>
vars    == <<ring, words, threads, cpus, senders>>

\* remote_fifo_init
RingInit == /\ tbl = [i \in 0 .. SlotNr - 1 |-> None]
            /\ wridx = 0
            /\ rdidx = 0

\* rpc_listner_init
ListnerInit == /\ RingInit
               /\ pending = 0
               /\ handled = None

\* rpc_manager_init, then the first RPC thread of each CPU, created by thread_idle.
ManagerInit == /\ pc = [t \in Threads |-> IF t \in Range(First) THEN "check" ELSE "none"]
               /\ run = First
               /\ runq = [c \in Cpus |-> <<>>]
               /\ wq = [c \in Cpus |-> <<>>]
               /\ working = [c \in Cpus |-> 1]

Init == /\ ListnerInit
        /\ ManagerInit
        /\ slot = [t \in Threads |-> None]
        /\ got = [t \in Threads |-> None]
        /\ loaded = [t \in Threads |-> None]
        /\ spc = [m \in Msgs |-> "put"]
        /\ response = [m \in Msgs |-> FALSE]
        /\ runs = [m \in Msgs |-> 0]

NextSlot(i) == (i + 1) % SlotNr

-----------------------------------------------------------------------------
(* The senders.                                                            *)

\* A slip: one slot too many.
PutOverfull(m) == /\ spc[m] = "put"
                  /\ tbl' = [tbl EXCEPT ![wridx] = m]
                  /\ wridx' = NextSlot(wridx)
                  /\ spc' = [spc EXCEPT ![m] = "pend"]
                  /\ UNCHANGED <<rdidx, words, threads, cpus, response, runs>>

\* remote_fifo_put, under its ticket lock.  When the ring is full it answers
\* EAGAIN and the sender backs off: no step.
Put(m) == /\ spc[m] = "put"
          /\ NextSlot(wridx) # rdidx
          /\ tbl' = [tbl EXCEPT ![wridx] = m]
          /\ wridx' = NextSlot(wridx)
          /\ spc' = [spc EXCEPT ![m] = "pend"]
          /\ UNCHANGED <<rdidx, words, threads, cpus, response, runs>>

\* while(!(isPending = remote_lw(pending)))
ReadPending(m) == /\ spc[m] = "pend"
                  /\ spc' = [spc EXCEPT ![m] = IF pending = 0 THEN "cas" ELSE "wait"]
                  /\ UNCHANGED <<ring, words, threads, cpus, response, runs>>

\* remote_atomic_cas(pending, 0, 1)
CasPending(m) == /\ spc[m] = "cas"
                 /\ pending' = 1
                 /\ spc' = [spc EXCEPT ![m] = IF pending = 0 THEN "ipi" ELSE "pend"]
                 /\ UNCHANGED <<ring, handled, threads, cpus, response, runs>>

\* Having raised pending the sender returns if the target is in the kernel,
\* as it is when it runs an RPC thread; else it sends the IPI, which only makes
\* the target check sooner, and reads pending again.
SendIpi(m) == /\ spc[m] = "ipi"
              /\ \E inKernel \in IF \E c \in Cpus : run[c] # None THEN {TRUE} ELSE BOOLEAN :
                    spc' = [spc EXCEPT ![m] = IF inKernel THEN "wait" ELSE "pend"]
              /\ UNCHANGED <<ring, words, threads, cpus, response, runs>>

\* while(!rpc->response) rpc_backoff(); then the buffer serves another RPC.
Answered(m) == /\ spc[m] = "wait"
               /\ response[m]
               /\ spc' = [spc EXCEPT ![m] = IF m \in Repeated THEN "put" ELSE "done"]
               /\ response' = [response EXCEPT ![m] = FALSE]
               /\ runs' = [runs EXCEPT ![m] = 0]
               /\ UNCHANGED <<ring, words, threads, cpus>>

-----------------------------------------------------------------------------
(* An RPC thread: rpc_check_notify and rpc_listner_notify.                 *)

At(t, l) == /\ run[CpuOf[t]] = t
            /\ pc[t] = l

Goto(t, l) == pc' = [pc EXCEPT ![t] = l]

\* The unlocked test of handled and pending.
CheckNotify(t) == /\ At(t, "check")
                  /\ Goto(t, IF pending = 1 /\ handled = None THEN "take" ELSE "idle")
                  /\ UNCHANGED <<ring, words, slot, got, cpus, senders>>

\* A slip: a plain store in place of the test and set.
SetHandledStore(t) == /\ At(t, "take")
                      /\ handled' = t
                      /\ Goto(t, "notify")
                      /\ UNCHANGED <<ring, pending, slot, got, cpus, senders>>

\* rpc_set_handled: an atomic test and set.
SetHandled(t) == /\ At(t, "take")
                 /\ handled' = IF handled = None THEN t ELSE handled
                 /\ Goto(t, IF handled = None THEN "notify" ELSE "idle")
                 /\ UNCHANGED <<ring, pending, slot, got, cpus, senders>>

\* rpc_listner_notify returns at once if the last handler has drained the ring.
Notify(t) == /\ At(t, "notify")
             /\ Goto(t, IF pending = 1 THEN "get" ELSE "unset")
             /\ UNCHANGED <<ring, words, slot, got, cpus, senders>>

\* remote_fifo_get: the address of the slot at rdidx, or EAGAIN.
Get(t) == /\ At(t, "get")
          /\ slot' = [slot EXCEPT ![t] = IF rdidx = wridx THEN None ELSE rdidx]
          /\ Goto(t, IF rdidx = wridx THEN "cas" ELSE "copy")
          /\ UNCHANGED <<ring, words, got, cpus, senders>>

\* rpc_ptr_copy, remote_fifo_release, and the start of the handler.
Release(t) == /\ At(t, "copy")
              /\ got' = [got EXCEPT ![t] = tbl[slot[t]]]
              /\ rdidx' = NextSlot(rdidx)
              /\ runs' = [runs EXCEPT ![tbl[slot[t]]] = @ + 1]
              /\ slot' = [slot EXCEPT ![t] = None]
              /\ Goto(t, "handle")
              /\ UNCHANGED <<tbl, wridx, words, cpus, spc, response>>

\* The handler ends with rpc_send_rsp, which raises rpc->response.
Finish(t) == /\ At(t, "handle")
             /\ response' = [response EXCEPT ![got[t]] = TRUE]
             /\ got' = [got EXCEPT ![t] = None]
             /\ Goto(t, "recheck")
             /\ UNCHANGED <<ring, words, slot, cpus, spc, runs>>

\* rpc_check_handler: leave if the thread is no longer the handler.
Recheck(t) == /\ At(t, "recheck")
              /\ Goto(t, IF handled = t THEN "get" ELSE "unset")
              /\ UNCHANGED <<ring, words, slot, got, cpus, senders>>

\* A slip: leave as soon as the ring was seen empty, without a last look.
CasDoneOnce(t) == /\ At(t, "cas")
                  /\ pending' = 0
                  /\ Goto(t, "unset")
                  /\ UNCHANGED <<ring, handled, slot, got, cpus, senders>>

\* do ... while(atomic_cas(&rl->pending, 1, 0)): one last look after the clear.
CasDone(t) == /\ At(t, "cas")
              /\ pending' = 0
              /\ Goto(t, IF pending = 1 THEN "get" ELSE "unset")
              /\ UNCHANGED <<ring, handled, slot, got, cpus, senders>>

\* A slip: the listener not given up.
UnsetKeep(t) == /\ At(t, "unset")
                /\ Goto(t, "idle")
                /\ UNCHANGED <<ring, words, slot, got, cpus, senders>>

\* rpc_unset_handled on return, whether or not the thread still is the handler.
Unset(t) == /\ At(t, "unset")
            /\ handled' = None
            /\ Goto(t, "idle")
            /\ UNCHANGED <<ring, pending, slot, got, cpus, senders>>

-----------------------------------------------------------------------------
(* Sleeping and waking.                                                    *)

\* The end of the loop of thread_rpc_manager: wait_on(rpc_wq, WAIT_ANY) adds
\* at the head; the thread will start again from the check.
WaitOn(t) == LET c == CpuOf[t] IN
             /\ At(t, "idle")
             /\ wq' = [wq EXCEPT ![c] = <<t>> \o @]
             /\ run' = [run EXCEPT ![c] = None]
             /\ Goto(t, "check")
             /\ UNCHANGED <<ring, words, slot, got, runq, working, loaded, senders>>

\* The CPU elects the first ready RPC thread.
Elect(c) == /\ run[c] = None
            /\ runq[c] # <<>>
            /\ run' = [run EXCEPT ![c] = Head(runq[c])]
            /\ runq' = [runq EXCEPT ![c] = Tail(@)]
            /\ UNCHANGED <<ring, words, threads, wq, working, loaded, senders>>

\* __cpu_check_sched, from the idle loop or at the end of an interrupt or of a
\* system call: wake an RPC thread if something is pending and not handled.
\* Kernel threads are elected first, so this code runs when none is ready.
CheckSched(c) == /\ run[c] = None /\ runq[c] = <<>>
                 /\ pending = 1 /\ handled = None
                 /\ wq[c] # <<>>
                 /\ runq' = [runq EXCEPT ![c] = <<Head(wq[c])>> \o @]
                 /\ wq' = [wq EXCEPT ![c] = Tail(@)]
                 /\ UNCHANGED <<ring, words, threads, run, working, loaded, senders>>

\* The threads rpc_thread_create can still make; none left is its ENOMEM.
New(c) == {t \in Threads : CpuOf[t] = c /\ pc[t] = "none"}

\* A handler sleeps: __sched_sleep calls rpc_before_sleep.  When the last
\* working thread of the CPU goes, it gives up the listener and wakes an idle
\* RPC thread or, if there is none and memory allows, creates one.
Sleep(t) ==
    LET c   == CpuOf[t]
        cnt == (working[c] + UintNr - 1) % UintNr
    IN
    /\ At(t, "handle")
    /\ got[t] \in Blocking
    /\ run' = [run EXCEPT ![c] = None]
    /\ handled' = IF cnt = 0 THEN None ELSE handled
    /\ \/ /\ cnt # 0 \/ (wq[c] = <<>> /\ New(c) = {})
          /\ working' = [working EXCEPT ![c] = cnt]
          /\ UNCHANGED <<pc, runq, wq>>
       \/ /\ cnt = 0 /\ wq[c] # <<>>
          /\ working' = [working EXCEPT ![c] = cnt]
          /\ runq' = [runq EXCEPT ![c] = <<Head(wq[c])>> \o @]
          /\ wq' = [wq EXCEPT ![c] = Tail(@)]
          /\ UNCHANGED pc
       \/ /\ cnt = 0 /\ wq[c] = <<>>
          /\ \E n \in New(c) : /\ Goto(n, "check")
                               /\ runq' = [runq EXCEPT ![c] = <<n>> \o @]
          /\ working' = [working EXCEPT ![c] = 1]
          /\ UNCHANGED wq
    /\ UNCHANGED <<ring, pending, slot, got, loaded, senders>>

\* In its handler, but neither running nor ready.
Asleep(t) == /\ pc[t] = "handle"
             /\ run[CpuOf[t]] # t
             /\ t \notin Range(runq[CpuOf[t]])

\* sched_wakeup by the thread's own CPU: rr_wakeup, then rpc_after_wakeup.
Wakeup(t) == LET c == CpuOf[t] IN
             /\ Asleep(t)
             /\ loaded[t] = None
             /\ runq' = [runq EXCEPT ![c] = <<t>> \o @]
             /\ working' = [working EXCEPT ![c] = (@ + 1) % UintNr]
             /\ UNCHANGED <<ring, words, threads, run, wq, loaded, senders>>

\* The same by another CPU: the count is loaded after the thread is ready,
\* and stored later.
WakeupRemote(t) == LET c == CpuOf[t] IN
                   /\ Asleep(t)
                   /\ got[t] \in RemoteWake
                   /\ loaded[t] = None
                   /\ runq' = [runq EXCEPT ![c] = <<t>> \o @]
                   /\ loaded' = [loaded EXCEPT ![t] = working[c]]
                   /\ UNCHANGED <<ring, words, threads, run, wq, working, senders>>

AfterWakeupStore(t) == /\ loaded[t] # None
                       /\ working' = [working EXCEPT ![CpuOf[t]] = (loaded[t] + 1) % UintNr]
                       /\ loaded' = [loaded EXCEPT ![t] = None]
                       /\ UNCHANGED <<ring, words, threads, run, runq, wq, senders>>

-----------------------------------------------------------------------------
Send(m) == ReadPending(m) \/ CasPending(m) \/ SendIpi(m) \/ Answered(m)

Serve(t) == \/ CheckNotify(t) \/ SetHandled(t) \/ Notify(t) \/ Get(t) \/ Release(t)
            \/ Recheck(t) \/ CasDone(t) \/ Unset(t) \/ WaitOn(t)

Wake(t) == Wakeup(t) \/ WakeupRemote(t) \/ AfterWakeupStore(t)

Next == \/ \E m \in Msgs : Put(m) \/ Send(m)
        \/ \E t \in Threads : Serve(t) \/ Finish(t) \/ Sleep(t) \/ Wake(t)
        \/ \E c \in Cpus : Elect(c) \/ CheckSched(c)

\* Senders spin and threads run until they wait; clock interrupts and the idle
\* loop check the listener for ever; a sleeping handler is woken, and a handler
\* sleeps finitely often.
Fairness == /\ \A m \in Msgs : WF_vars(Send(m))
            /\ \A t \in Threads : WF_vars(Serve(t)) /\ SF_vars(Finish(t)) /\ WF_vars(Wake(t))
            /\ \A c \in Cpus : WF_vars(Elect(c)) /\ WF_vars(CheckSched(c))

\* Without fairness, for the runs that check invariants only.
Safety == Init /\ [][Next]_vars

Spec == Safety /\ Fairness

-----------------------------------------------------------------------------
\* The RPCs in the ring, oldest first.
Queued == [i \in 1 .. (wridx - rdidx) % SlotNr |-> tbl[(rdidx + i - 1) % SlotNr]]

\* remote_fifo_get and remote_fifo_release are marked "one thread": never do
\* two threads stand between the get and the release of the same ring.
OneConsumer == \A t, u \in Threads : pc[t] = "copy" /\ pc[u] = "copy" => t = u

\* Each RPC that was put in the ring is in exactly one place: in the ring, with
\* the thread that took it, or answered.  None is lost or handled twice,
\* wrap-around and a full ring included.
ExactlyOnce ==
    \A m \in Msgs :
        LET inRing == Cardinality({i \in DOMAIN Queued : Queued[i] = m})
            held   == Cardinality({t \in Threads : got[t] = m})
        IN  /\ inRing + held = IF spc[m] \in {"put", "done"} \/ response[m] THEN 0 ELSE 1
            /\ runs[m] = IF spc[m] \in {"put", "done"} THEN 0 ELSE 1 - inRing

\* No RPC is left behind: whenever the ring holds one, either pending says so,
\* or its sender is about to, or a thread is still on its way to look.
NoneStranded ==
    Queued # <<>> =>
        \/ pending = 1
        \/ \E m \in Msgs : spc[m] \in {"pend", "cas"}
        \/ \E t \in Threads : pc[t] \in {"get", "copy", "handle", "recheck"}

\* Every RPC in the ring is answered: its sender spins in rpc_send_sync
\* without ever giving up.
EveryCallAnswered == \A m \in Msgs : spc[m] \in {"pend", "cas", "ipi", "wait"} ~> response[m]
=============================================================================
