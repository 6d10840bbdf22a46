----------------------------- MODULE AudioGuard -----------------------------
(***************************************************************************)
(* The audio guard of the macOS backend (src/macos/audio_guard.rs): while  *)
(* a watch is guarded, the system's default output goes back to what it    *)
(* was when the guard began, whenever the system gives it to the watch.    *)
(*                                                                         *)
(* start, stop_for and stop_all are called on the main run loop, one after *)
(* the other; the CoreAudio callback runs on a thread of its own, in       *)
(* between.  A watch and the audio device it is are one value.             *)
(*                                                                         *)
(* CoreAudio may refuse every call but three reads that is_watch_device    *)
(* makes (transport, UID, name) when `start` asks whether the output is a  *)
(* guarded watch; in the callback their failure is that of the whole read. *)
(* To register the listener a second time is the same registration.        *)
(*                                                                         *)
(* A definition whose name begins with Bad is the definition after it with *)
(* a mistake in it; the runs check that a property notices.                *)
(***************************************************************************)
EXTENDS Naturals, FiniteSets

CONSTANTS
    Watch,          \* watches that can be guarded, as audio devices
    Speaker,        \* other outputs
    NoOutput,       \* AudioDeviceID 0
    LooksLike,      \* pairs of watches: the first is taken for the second by its name
    ListenerFails,  \* whether CoreAudio may refuse to add or to remove the listener
    MaxSwitches     \* bound: changes of the default output by the system or the user

Output == Watch \cup Speaker

ASSUME OutputAssumption == Watch \cap Speaker = {} /\ NoOutput \notin Output
ASSUME LooksAssumption == LooksLike \subseteq Watch \X Watch
ASSUME ListenerAssumption == ListenerFails \in BOOLEAN /\ MaxSwitches \in Nat

VARIABLES
    active,      \* GuardState.active
    targets,     \* GuardState.targets: the watches guarded
    preferred,   \* GuardTarget.preferred, per watch; NoOutput for those not in targets
    registered,  \* whether CoreAudio has the listener
    leftover,    \* ghost: whether CoreAudio refused to remove it, and none was added since
    output,      \* the system's default output
    notice,      \* whether CoreAudio is about to call the listener
    mpc, mreg,   \* the main thread: where it is, and the watch and output it has
    cpc, copy,   \* the callback: where it is, and the targets it has copied
    aim,         \* ... and the output it is about to set
    taken,       \* the watch that took the output while its guard stood, or NoOutput
    switches     \* changes of the default output so far

guardVars    == <<active, targets, preferred, registered, leftover>>
audioVars    == <<output, notice, taken, switches>>
mainVars     == <<mpc, mreg>>
callbackVars == <<cpc, copy, aim>>
audioGuardVars == <<guardVars, audioVars, mainVars, callbackVars>>

\* is_watch_device: by MAC address, or else by name.
Matches(dev, w) == dev = w \/ <<dev, w>> \in LooksLike
Nothing == [watch |-> NoOutput, current |-> NoOutput]

GuardInit ==
    /\ active = FALSE /\ targets = {} /\ registered = FALSE /\ leftover = FALSE
    /\ preferred = [w \in Watch |-> NoOutput]
    /\ output \in Output /\ notice = FALSE /\ taken = NoOutput /\ switches = 0
    /\ mpc = "idle" /\ mreg = Nothing
    /\ cpc = "idle" /\ copy = {} /\ aim = NoOutput

-----------------------------------------------------------------------------
(***************************************************************************)
(* The main thread                                                         *)
(***************************************************************************)
\* start: the output is read before the lock is taken; reading it may fail ...
Start(w) ==
    /\ mpc = "idle"
    /\ \E o \in {output, NoOutput} : mreg' = [watch |-> w, current |-> o]
    /\ mpc' = "insert"
    /\ UNCHANGED <<guardVars, audioVars, callbackVars>>

\* ... the target is inserted; it prefers that output unless a guarded watch has it ...
BadPreference == mreg.current
Preference == IF \E w \in targets : Matches(mreg.current, w) THEN NoOutput ELSE mreg.current
Insert ==
    /\ mpc = "insert"
    /\ targets' = targets \cup {mreg.watch}
    /\ preferred' = [preferred EXCEPT ![mreg.watch] = Preference]
    /\ active' = TRUE
    /\ mpc' = IF active THEN "idle" ELSE "register"
    /\ mreg' = IF active THEN Nothing ELSE mreg
    /\ UNCHANGED <<registered, leftover, audioVars, callbackVars>>

Without(ws) == [w \in Watch |-> IF w \in ws THEN NoOutput ELSE preferred[w]]

\* ... and the listener is added, which CoreAudio may refuse.
BadRegister(ok) ==
    /\ mpc = "register" /\ (ok \/ ListenerFails)
    /\ registered' = (registered \/ ok)
    /\ leftover' = (leftover /\ ~ok)
    /\ targets' = IF ok THEN targets ELSE targets \ {mreg.watch}
    /\ preferred' = IF ok THEN preferred ELSE Without({mreg.watch})
    /\ mpc' = "idle" /\ mreg' = Nothing
    /\ UNCHANGED <<active, audioVars, callbackVars>>
Register(ok) ==
    /\ mpc = "register" /\ (ok \/ ListenerFails)
    /\ registered' = (registered \/ ok)
    /\ leftover' = (leftover /\ ~ok)
    /\ active' = ok
    /\ targets' = IF ok THEN targets ELSE targets \ {mreg.watch}
    /\ preferred' = IF ok THEN preferred ELSE Without({mreg.watch})
    /\ mpc' = "idle" /\ mreg' = Nothing
    /\ UNCHANGED <<audioVars, callbackVars>>

\* stop_for and stop_all: the last target takes the listener with it, after unlocking.
Stop(ws) ==
    /\ mpc = "idle"
    /\ targets' = targets \ ws /\ preferred' = Without(ws)
    /\ active' = (active /\ targets' # {})
    /\ taken' = IF taken \in ws THEN NoOutput ELSE taken
    /\ mpc' = IF active /\ targets' = {} THEN "remove" ELSE "idle"
    /\ UNCHANGED <<registered, leftover, output, notice, switches, mreg, callbackVars>>

\* CoreAudio may refuse, and keeps the listener: nobody asks again before the last
\* target of a later guard ends.
Remove(ok) ==
    /\ mpc = "remove" /\ (ok \/ ListenerFails)
    /\ registered' = (registered /\ ~ok)
    /\ notice' = (notice /\ ~ok)
    /\ leftover' = ~ok
    /\ mpc' = "idle"
    /\ UNCHANGED <<active, targets, preferred, output, taken, switches, mreg, callbackVars>>

-----------------------------------------------------------------------------
(***************************************************************************)
(* CoreAudio and default_output_changed                                    *)
(***************************************************************************)
\* A guard stands once start has returned.
Stands(w) == w \in targets /\ registered /\ mreg.watch # w

\* The default output becomes o; the listener is told.
Becomes(o) ==
    /\ output' = o
    /\ notice' = (notice \/ (registered /\ o # output))
    /\ taken' = CASE o = output -> taken
                  [] o # output /\ o \in Watch /\ Stands(o) -> o
                  [] OTHER -> NoOutput

\* The system, or the user, chooses another output.
Switch(o) ==
    /\ switches < MaxSwitches /\ o # output
    /\ switches' = switches + 1
    /\ Becomes(o)
    /\ UNCHANGED <<guardVars, mainVars, callbackVars>>

\* The callback copies the targets under the lock, if the guard is active ...
Notified ==
    /\ notice /\ cpc = "idle"
    /\ notice' = FALSE
    /\ IF active /\ targets # {}
       THEN /\ cpc' = "read"
            /\ copy' = {[watch |-> w, preferred |-> preferred[w]] : w \in targets}
       ELSE UNCHANGED <<cpc, copy>>
    /\ UNCHANGED <<guardVars, output, taken, switches, mainVars, aim>>

\* The callback may fail to read or to set the output.  Nothing is tried again: the
\* watch keeps the output until the next notice.
NotRestored == taken' = IF notice THEN taken ELSE NoOutput

\* ... reads the output, finds a watch that matches it (in the order of the HashMap)
\* and aims at what this watch prefers, unless that is itself ...
Usable(t, current) == t.preferred \notin {NoOutput, current} /\ ~Matches(t.preferred, t.watch)
BadReadOutput ==
    /\ cpc = "read"
    /\ \/ \E t \in copy : /\ t.preferred # NoOutput
                          /\ aim' = t.preferred /\ cpc' = "set"
       \/ /\ \A t \in copy : t.preferred = NoOutput
          /\ aim' = NoOutput /\ cpc' = "idle"
    /\ copy' = {}
    /\ UNCHANGED <<guardVars, audioVars, mainVars>>
ReadOutput ==
    /\ cpc = "read"
    /\ \/ \E t \in copy : /\ Matches(output, t.watch)
                          /\ aim' = IF Usable(t, output) THEN t.preferred ELSE NoOutput
                          /\ cpc' = IF Usable(t, output) THEN "set" ELSE "idle"
          /\ UNCHANGED taken
       \/ /\ \A t \in copy : ~Matches(output, t.watch)
          /\ aim' = NoOutput /\ cpc' = "idle"
          /\ UNCHANGED taken
       \/ /\ NotRestored
          /\ aim' = NoOutput /\ cpc' = "idle"
    /\ copy' = {}
    /\ UNCHANGED <<guardVars, output, notice, switches, mainVars>>

\* ... and sets it.
SetOutput(ok) ==
    /\ cpc = "set"
    /\ IF ok THEN Becomes(aim) ELSE NotRestored /\ UNCHANGED <<output, notice>>
    /\ aim' = NoOutput /\ cpc' = "idle"
    /\ UNCHANGED <<guardVars, switches, mainVars, copy>>

Main == Insert \/ \E ok \in BOOLEAN : Register(ok) \/ Remove(ok)
Callback == Notified \/ ReadOutput \/ \E ok \in BOOLEAN : SetOutput(ok)

-----------------------------------------------------------------------------
\* A target in the table is guarded in fact: whenever the main thread is at rest there
\* are targets exactly if the guard is active, and then CoreAudio has the listener,
\* whatever CoreAudio refused and whichever of several watches ended first.  The
\* listener without a target is what a refused removal leaves, and nothing else.
TargetsAreGuarded ==
    mpc = "idle" => /\ active = (targets # {})
                    /\ active => registered
                    /\ registered => active \/ leftover

\* "Do not use another guarded watch as the preferred output for a new target": no
\* two guarded watches prefer each other, so that the callback does not pass the
\* output to and fro between them.
NoPingPong ==
    \A v, w \in targets : v # w => ~(preferred[v] = w /\ preferred[w] = v)

\* A watch that takes the output while its guard stands, and whose guard recorded an
\* output to go back to, does not keep it, unless CoreAudio refuses the callback: to tell
\* which output there is, or to set another.
\* A watch with the name of another is left out: the loop ends at the first target that
\* matches, which may be that of the other.
Restorable(w) == /\ w \in targets /\ preferred[w] # NoOutput /\ ~Matches(preferred[w], w)
                 /\ \A v \in Watch : Matches(w, v) => v = w
OutputRestored ==
    \A w \in Watch : taken = w /\ Restorable(w) ~> ~(taken = w /\ Restorable(w))
=============================================================================
