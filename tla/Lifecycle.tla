----------------------------- MODULE Lifecycle -----------------------------
(***************************************************************************)
(* The threads of the Android process and the globals they share           *)
(* (bridge.c, MainActivity.java).                                          *)
(*                                                                         *)
(* Each start of a virtual machine is an activity.  Its onCreate, on the   *)
(* user-interface thread, starts a thread that loads the library, prepares *)
(* the files and calls nativeInit; nativeInit builds a machine, named here *)
(* after its activity, and starts a thread that runs emu_loop.  onDestroy  *)
(* runs nativeStop on the user-interface thread.  Nothing takes a lock.     *)
(***************************************************************************)
EXTENDS Naturals

CONSTANTS
  Activities,  \* the starts of a virtual machine within one process
  NULL,        \* the null pointer
  StopTries,   \* bound on the polls of g_run in nativeStop (300 in the code)
  Patient,     \* the user leaves only an activity whose machine has started
  Prompt       \* emu_loop reads g_stop again before nativeStop gives up

ASSUME NullAssumption == NULL \notin Activities
ASSUME BoundAssumption == StopTries \in Nat
ASSUME UserAssumption == Patient \in BOOLEAN /\ Prompt \in BOOLEAN

VARIABLES
  life,     \* the activity: "new", "created", "gone"
  ui,       \* where the user-interface thread is in nativeStop, and for whom
  tries,    \* polls of g_run so far
  init,     \* init[a]: where the start-up thread of a is
  emu,      \* emu[a]: where the thread started by a's nativeInit is
  cur,      \* cur[a]: the machine that thread is working on
  bb,       \* bb[a]: the frame buffer the activity draws from
  lib,      \* libtiny386.so is loaded
  g_pc, g_fb, g_run, g_stop,
  off,      \* machines whose shutdown_state is 8
  crashed   \* the process has died

threads == <<life, ui, tries, init, emu, cur, bb>>
globals == <<lib, g_pc, g_fb, g_run, g_stop>>
vars == <<threads, globals, off, crashed>>

Ref == Activities \union {NULL}

Init ==
  /\ life = [a \in Activities |-> "new"]
  /\ ui = [at |-> "idle", act |-> NULL]
  /\ tries = 0
  /\ init = [a \in Activities |-> "none"]
  /\ emu = [a \in Activities |-> "none"]
  /\ cur = [a \in Activities |-> NULL]
  /\ bb = [a \in Activities |-> NULL]
  /\ lib = FALSE
  /\ g_pc = NULL /\ g_fb = NULL /\ g_run = FALSE /\ g_stop = FALSE
  /\ off = {}
  /\ crashed = FALSE

Die == crashed' = TRUE /\ UNCHANGED <<threads, globals, off>>

-----------------------------------------------------------------------------
(* The user-interface thread. *)

UiIdle == ~crashed /\ ui.at = "idle"

OnCreate(a) ==
  /\ UiIdle
  /\ life[a] = "new" /\ \A b \in Activities : life[b] # "created"
  /\ life' = [life EXCEPT ![a] = "created"]
  /\ init' = [init EXCEPT ![a] = "load"]
  /\ UNCHANGED <<ui, tries, emu, cur, bb, globals, off, crashed>>

(* A key, at any time from onCreate on.  Before the library is there it is *)
(* an uncaught UnsatisfiedLinkError, on which the handler kills the        *)
(* process; otherwise it goes to the queue of whatever machine g_pc names, *)
(* and changes nothing modelled here.                                      *)
NativeKey(a) ==
  /\ UiIdle
  /\ life[a] = "created"
  /\ ~lib
  /\ Die

(* The machine has started: its start-up thread and nativeInit are through *)
(* and its emulation thread has raised g_run.                              *)
Started(a) ==
  /\ init[a] \in {"done", "failed"}
  /\ emu[a] # "ready"

(* Mutated: the globals are cleared before the wait. *)
OnDestroyClearsFirst(a) ==
  /\ UiIdle
  /\ life[a] = "created"
  /\ Started(a)
  /\ g_stop' = TRUE /\ g_pc' = NULL /\ g_fb' = NULL
  /\ ui' = [at |-> "wait", act |-> a]
  /\ UNCHANGED <<life, tries, init, emu, cur, bb, lib, g_run, off, crashed>>

(* nativeStop, step by step.  Without the library the call throws and      *)
(* onDestroy ignores it.                                                   *)
OnDestroy(a) ==
  /\ UiIdle
  /\ life[a] = "created"
  /\ Patient => Started(a)
  /\ IF lib
     THEN /\ g_stop' = TRUE
          /\ ui' = [at |-> "wait", act |-> a]
          /\ tries' = 0
          /\ UNCHANGED life
     ELSE /\ life' = [life EXCEPT ![a] = "gone"]
          /\ UNCHANGED <<g_stop, ui, tries>>
  /\ UNCHANGED <<init, emu, cur, bb, lib, g_pc, g_fb, g_run, off, crashed>>

StopWait ==
  /\ ~crashed
  /\ ui.at = "wait" /\ g_run /\ tries < StopTries
  /\ ~Prompt
  /\ tries' = tries + 1
  /\ UNCHANGED <<life, ui, init, emu, cur, bb, globals, off, crashed>>

(* Mutated: nativeStop does not look at g_run. *)
StopWaitedAtOnce ==
  /\ ~crashed
  /\ ui.at = "wait"
  /\ ui' = [ui EXCEPT !.at = "clear"]
  /\ UNCHANGED <<life, tries, init, emu, cur, bb, globals, off, crashed>>

(* Mutated: it waits without a limit. *)
StopWaitedForever ==
  /\ ~crashed
  /\ ui.at = "wait"
  /\ ~g_run
  /\ ui' = [ui EXCEPT !.at = "clear"]
  /\ UNCHANGED <<life, tries, init, emu, cur, bb, globals, off, crashed>>

StopWaited ==
  /\ ~crashed
  /\ ui.at = "wait"
  /\ ~g_run \/ (~Prompt /\ tries = StopTries)
  /\ ui' = [ui EXCEPT !.at = "clear"]
  /\ UNCHANGED <<life, tries, init, emu, cur, bb, globals, off, crashed>>

StopClear ==
  /\ ~crashed
  /\ ui.at = "clear"
  /\ g_pc' = NULL /\ g_fb' = NULL
  /\ ui' = [ui EXCEPT !.at = "reset"]
  /\ UNCHANGED <<life, tries, init, emu, cur, bb, lib, g_run, g_stop, off, crashed>>

(* Mutated: the flag stays up for the next machine. *)
StopResetKeepsFlag ==
  /\ ~crashed
  /\ ui.at = "reset"
  /\ ui' = [ui EXCEPT !.at = "forget"]
  /\ UNCHANGED <<life, tries, init, emu, cur, bb, globals, off, crashed>>

StopReset ==
  /\ ~crashed
  /\ ui.at = "reset"
  /\ g_stop' = FALSE
  /\ ui' = [ui EXCEPT !.at = "forget"]
  /\ UNCHANGED <<life, tries, init, emu, cur, bb, lib, g_pc, g_fb, g_run, off, crashed>>

StopForget ==
  /\ ~crashed
  /\ ui.at = "forget"
  /\ g_run' = FALSE
  /\ life' = [life EXCEPT ![ui.act] = "gone"]
  /\ ui' = [at |-> "idle", act |-> NULL]
  /\ tries' = 0
  /\ UNCHANGED <<init, emu, cur, bb, lib, g_pc, g_fb, g_stop, off, crashed>>

UiSteps == StopWait \/ StopWaited \/ StopClear \/ StopReset \/ StopForget

-----------------------------------------------------------------------------
(* The start-up thread of activity a. *)

At(a, here, next) == ~crashed /\ init[a] = here /\ init' = [init EXCEPT ![a] = next]

LoadLibrary(a) ==
  /\ At(a, "load", "fb")
  /\ lib' = TRUE
  /\ UNCHANGED <<life, ui, tries, emu, cur, bb, g_pc, g_fb, g_run, g_stop, off, crashed>>

(* The library cannot be loaded, an exception ends the thread, the         *)
(* configuration cannot be read, or there is no memory for the frame       *)
(* buffer (which leaves g_fb NULL).                                        *)
InitFails(a) ==
  /\ \/ At(a, "load", "failed") /\ UNCHANGED g_fb
     \/ At(a, "fb", "failed") /\ g_fb' \in {g_fb, NULL}
  /\ UNCHANGED <<life, ui, tries, emu, cur, bb, lib, g_pc, g_run, g_stop, off, crashed>>

AllocFb(a) ==
  /\ At(a, "fb", "pc")
  /\ g_fb' = a
  /\ UNCHANGED <<life, ui, tries, emu, cur, bb, lib, g_pc, g_run, g_stop, off, crashed>>

PcNew(a) ==
  /\ At(a, "pc", "hook")
  /\ g_pc' = a
  /\ UNCHANGED <<life, ui, tries, emu, cur, bb, lib, g_fb, g_run, g_stop, off, crashed>>

(* pc_new returns NULL: nativeInit returns -3 with g_fb set. *)
PcNewFails(a) ==
  /\ At(a, "pc", "failed")
  /\ g_pc' = NULL
  /\ UNCHANGED <<life, ui, tries, emu, cur, bb, lib, g_fb, g_run, g_stop, off, crashed>>

(* After load_bios_and_reset, g_pc is read again to note the time and to   *)
(* hook the text probe.                                                    *)
HookProbe(a) ==
  \/ /\ g_pc # NULL
     /\ At(a, "hook", "spawn")
     /\ UNCHANGED <<life, ui, tries, emu, cur, bb, globals, off, crashed>>
  \/ /\ ~crashed /\ init[a] = "hook" /\ g_pc = NULL
     /\ Die

Spawn(a) ==
  /\ At(a, "spawn", "view")
  /\ emu' = [emu EXCEPT ![a] = "ready"]
  /\ UNCHANGED <<life, ui, tries, cur, bb, globals, off, crashed>>

(* pthread_create fails: nativeInit returns -4 and leaves g_pc set. *)
SpawnFails(a) ==
  /\ At(a, "spawn", "failed")
  /\ UNCHANGED <<life, ui, tries, emu, cur, bb, globals, off, crashed>>

(* The activity takes a view of whatever g_fb names. *)
NativeFb(a) ==
  /\ At(a, "view", "done")
  /\ bb' = [bb EXCEPT ![a] = g_fb]
  /\ UNCHANGED <<life, ui, tries, emu, cur, globals, off, crashed>>

InitSteps(a) ==
  \/ LoadLibrary(a) \/ InitFails(a) \/ AllocFb(a) \/ PcNew(a)
  \/ PcNewFails(a) \/ HookProbe(a) \/ Spawn(a) \/ SpawnFails(a) \/ NativeFb(a)

-----------------------------------------------------------------------------
(* The emulation thread that a's nativeInit started. *)

(* Mutated: the thread does not announce itself. *)
EmuRunUnannounced(a) ==
  /\ ~crashed
  /\ emu[a] = "ready"
  /\ emu' = [emu EXCEPT ![a] = "test"]
  /\ UNCHANGED <<life, ui, tries, init, cur, bb, globals, off, crashed>>

EmuRun(a) ==
  /\ ~crashed
  /\ emu[a] = "ready"
  /\ emu' = [emu EXCEPT ![a] = "test"]
  /\ g_run' = TRUE
  /\ UNCHANGED <<life, ui, tries, init, cur, bb, lib, g_pc, g_fb, g_stop, off, crashed>>

Going == g_pc # NULL /\ g_pc \notin off /\ ~g_stop

(* The loop condition holds: g_pc is passed to pc_step. *)
EmuEnter(a) ==
  /\ ~crashed
  /\ emu[a] = "test" /\ Going
  /\ emu' = [emu EXCEPT ![a] = "step"]
  /\ cur' = [cur EXCEPT ![a] = g_pc]
  /\ UNCHANGED <<life, ui, tries, init, bb, globals, off, crashed>>

(* pc_step returns, perhaps with the machine shut down by its guest, and   *)
(* g_pc is read again for pc_vga_step, which a null pointer crashes.        *)
EmuStep(a) ==
  /\ ~crashed
  /\ emu[a] = "step"
  /\ off' \in {off, off \union {cur[a]}}
  /\ IF g_pc = NULL
     THEN crashed' = TRUE /\ UNCHANGED <<emu, cur>>
     ELSE /\ emu' = [emu EXCEPT ![a] = "vga"]
          /\ cur' = [cur EXCEPT ![a] = g_pc]
          /\ UNCHANGED crashed
  /\ UNCHANGED <<life, ui, tries, init, bb, globals>>

EmuVga(a) ==
  /\ ~crashed
  /\ emu[a] = "vga"
  /\ emu' = [emu EXCEPT ![a] = "test"]
  /\ cur' = [cur EXCEPT ![a] = NULL]
  /\ UNCHANGED <<life, ui, tries, init, bb, globals, off, crashed>>

EmuExit(a) ==
  /\ ~crashed
  /\ emu[a] = "test" /\ ~Going
  /\ emu' = [emu EXCEPT ![a] = "done"]
  /\ g_run' = FALSE
  /\ UNCHANGED <<life, ui, tries, init, cur, bb, lib, g_pc, g_fb, g_stop, off, crashed>>

EmuSteps(a) == EmuRun(a) \/ EmuEnter(a) \/ EmuStep(a) \/ EmuVga(a) \/ EmuExit(a)

-----------------------------------------------------------------------------
Next ==
  \/ \E a \in Activities : OnCreate(a) \/ OnDestroy(a) \/ NativeKey(a)
  \/ UiSteps
  \/ \E a \in Activities : InitSteps(a) \/ EmuSteps(a)

Spec == Init /\ [][Next]_vars

(* Only the user-interface thread is sure to be scheduled. *)
StopSpec == Spec /\ WF_vars(UiSteps)

(* The operating system schedules every thread; the user promises nothing. *)
FairSpec ==
  /\ Spec
  /\ WF_vars(UiSteps)
  /\ \A a \in Activities : WF_vars(InitSteps(a)) /\ WF_vars(EmuSteps(a))

-----------------------------------------------------------------------------
(* What starting and stopping virtual machines must guarantee.             *)

(* The variables have their types. *)
TypeOK ==
  /\ life \in [Activities -> {"new", "created", "gone"}]
  /\ ui \in [at : {"idle", "wait", "clear", "reset", "forget"}, act : Ref]
  /\ tries \in 0..StopTries
  /\ init \in [Activities -> {"none", "load", "fb", "pc", "hook", "spawn",
                              "view", "done", "failed"}]
  /\ emu \in [Activities -> {"none", "ready", "test", "step", "vga", "done"}]
  /\ cur \in [Activities -> Ref] /\ bb \in [Activities -> Ref]
  /\ lib \in BOOLEAN /\ g_run \in BOOLEAN /\ g_stop \in BOOLEAN
  /\ g_pc \in Ref /\ g_fb \in Ref
  /\ off \in SUBSET Activities
  /\ crashed \in BOOLEAN

(* Once the library is loaded, starting, leaving and starting again never  *)
(* kills the process: no thread follows g_pc after nativeStop, or a failed *)
(* pc_new, has cleared it.  (A key before System.loadLibrary has returned  *)
(* for the first time does kill it, however patient the user: that death   *)
(* is the one the property lets pass.)                                     *)
NoNullMachine == crashed => ~lib


(* The power key stops the machine: once its activity is gone, no thread   *)
(* works on it and its own thread works on nothing.                        *)
Working(a) == emu[a] \in {"step", "vga"}

QuietAfterPowerOff ==
  \A a \in Activities : life[a] = "gone" =>
    /\ ~Working(a)
    /\ \A b \in Activities : Working(b) => cur[b] # a

(* No two threads are ever inside the emulator, whose state they would     *)
(* share without a lock, and each activity draws its own machine.           *)
OneStepper ==
  /\ \A a, b \in Activities : Working(a) /\ Working(b) => a = b
  /\ \A a \in Activities : Working(a) => cur[a] = a
  /\ \A a \in Activities : bb[a] \in {a, NULL}

(* nativeStop returns whatever the emulation thread does, because it gives *)
(* up after a bounded number of polls.                                     *)
StopReturns == ui.at # "idle" ~> (ui.at = "idle" \/ crashed)

(* A machine started after another one was stopped runs: nativeStop leaves  *)
(* no flag behind that would end the next emu_loop at once.                *)
StartsAgain ==
  \A a \in Activities :
    emu[a] = "ready" ~> (emu[a] = "step" \/ life[a] = "gone" \/ crashed)
=============================================================================
