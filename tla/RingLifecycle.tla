--------------------------- MODULE RingLifecycle ---------------------------
(***************************************************************************)
(* Loading and unloading of the two drivers, bn_device (module_ring.c) and *)
(* bn_module (lesson_module.c): init makes several registrations in a row, *)
(* each of which may fail, and unwinds; exit undoes them without looking.  *)
(* The memory that setting buffer_size allocates is left out.              *)
(***************************************************************************)
EXTENDS Naturals, Sequences

VARIABLES
  driver,       \* the module loaded last, or None
  phase,        \* "absent", "init", "unwind", "live" or "exit"
  step,         \* the registration being made or undone
  ret,          \* "ok" or "error": what init is going to return
  held,         \* what is registered with the kernel
  misused,      \* history: what this load undid without its being registered
  misreported   \* history: this load failed and reported success

Order == [ring   |-> <<"fifo", "region", "cdev", "class", "device", "file">>,
          lesson |-> <<"region", "cdev", "class", "device">>]
Registration == Order[driver][step]

Init ==
  /\ driver = "ring" /\ phase = "absent" /\ step = 0 /\ ret = "ok" /\ held = {}
  /\ misused = {} /\ misreported = FALSE

(* insmod.                                                                 *)
Load ==
  /\ phase = "absent" /\ driver' \in DOMAIN Order
  /\ phase' = "init" /\ step' = 1 /\ ret' = "ok"
  /\ misused' = {} /\ misreported' = FALSE
  /\ UNCHANGED held

Register ==
  /\ phase = "init"
  /\ held' = held \cup {Registration}
  /\ IF step = Len(Order[driver]) THEN phase' = "live" /\ step' = 0
                                  ELSE UNCHANGED phase /\ step' = step + 1
  /\ UNCHANGED <<driver, ret, misused, misreported>>

(* Mutant: the goto of a failing registration goes one label too high.     *)
RegisterFails_LabelTooHigh ==
  /\ phase = "init" /\ phase' = "unwind" /\ ret' = "error"
  /\ UNCHANGED <<driver, step, held, misused, misreported>>

(* A failed registration unwinds those before it.  The ring module does    *)
(* not store the failure of cdev_add in ret, and only logs that of         *)
(* device_create_file; the lesson module returns every failure.            *)
RegisterFails ==
  /\ phase = "init"
  /\ LET lost == driver = "ring" /\ Registration = "cdev"
     IN IF Registration = "file"
        THEN phase' = "live" /\ step' = 0 /\ UNCHANGED <<ret, misreported>>
        ELSE /\ phase' = "unwind" /\ step' = step - 1
             /\ ret' = IF lost THEN ret ELSE "error"
             /\ misreported' = lost
  /\ UNCHANGED <<driver, held, misused>>

(* device_destroy also removes the sysfs file of the device.               *)
Undo(what) ==
  /\ held' = held \ ({what} \cup IF what = "device" THEN {"file"} ELSE {})
  /\ misused' = misused \cup ({what} \ held)

Unwind ==
  /\ phase = "unwind"
  /\ IF step > 0
     THEN Undo(Registration) /\ step' = step - 1 /\ UNCHANGED phase
     ELSE /\ phase' = IF ret = "ok" THEN "live" ELSE "absent"
          /\ UNCHANGED <<step, held, misused>>
  /\ UNCHANGED <<driver, ret, misreported>>

StartExit ==
  /\ phase = "live" /\ phase' = "exit"
  /\ step' = CHOOSE i \in DOMAIN Order[driver] : Order[driver][i] = "device"
  /\ UNCHANGED <<driver, ret, held, misused, misreported>>

(* Mutant: exit stops before the first registration.                       *)
ContinueExit_KeepsFirst ==
  /\ phase = "exit"
  /\ IF step > 1
     THEN Undo(Registration) /\ step' = step - 1 /\ UNCHANGED phase
     ELSE phase' = "absent" /\ UNCHANGED <<step, held, misused>>
  /\ UNCHANGED <<driver, ret, misreported>>

(* rmmod: from the device back to the first registration.                  *)
ContinueExit ==
  /\ phase = "exit"
  /\ IF step > 0
     THEN Undo(Registration) /\ step' = step - 1 /\ UNCHANGED phase
     ELSE phase' = "absent" /\ UNCHANGED <<step, held, misused>>
  /\ UNCHANGED <<driver, ret, misreported>>

Next == Load \/ Register \/ RegisterFails \/ Unwind \/ StartExit \/ ContinueExit

vars == <<driver, phase, step, ret, held, misused, misreported>>
Spec == Init /\ [][Next]_vars

(* After a failed load, or a load and an unload, whatever registration     *)
(* failed, nothing stays registered (module_ring.c:241-253,                *)
(* lesson_module.c:92-132).                                                *)
NothingStays == phase = "absent" => held = {}

(* Neither the unwinding nor the exit functions undo a registration that   *)
(* was not made: that would be a use of invalid kernel objects.  The only  *)
(* exception is a load of the ring module in which cdev_add failed: it     *)
(* unwinds everything, returns the success of alloc_chrdev_region (line    *)
(* 207), and rmmod undoes it again.                                        *)
UndoesOnlyWhatWasDone == (misreported /\ driver = "ring") \/ misused = {}
=============================================================================
