----------------------------- MODULE GammaBlank -----------------------------
(***************************************************************************)
(* The black gamma table of macOS and its crash insurance                  *)
(* (crates/dormant-displays/src/macos_gamma_black.rs, gamma_breadcrumb.rs, *)
(* crates/dormantd/src/gamma_recovery.rs and the order of main.rs).        *)
(*                                                                         *)
(* A blank makes a screen black and keeps its table in memory only; the    *)
(* file gamma-blank.json, the breadcrumb, tells the next process that a    *)
(* restore of the whole system is owed.  Every process of the daemon       *)
(* checks it before it takes the single-instance lock and again when it    *)
(* ends, and neither check shares a lock with the blanks and wakes.  A     *)
(* table is lit or dark, and a restore always lights: both implementations *)
(* of restore_all return Ok.                                               *)
(***************************************************************************)
EXTENDS Integers, FiniteSets

CONSTANTS
  Screens,         \* the cg:<uuid> selectors
  Daemons,         \* processes of dormantd that can exist at the same time
  Supervised,      \* the one that the supervisor restarts
  NoFile,          \* there is no breadcrumb file
  NoDaemon,        \* nobody holds the flock
  MaxMishaps       \* bound: failed calls, deaths, stops, starts of the other
                   \*   processes, blanks that outlive the run loop, and
                   \*   emergency wakes of dormantctl

ASSUME GammaAssumption ==
  /\ Supervised \in Daemons /\ NoDaemon \notin Daemons
  /\ \A set \in SUBSET Screens : set # NoFile
  /\ MaxMishaps \in Nat

VARIABLES
  table,      \* the gamma table each screen shows
  crumb,      \* the breadcrumb: held_selectors, or NoFile
  flock,      \* the process that holds the single-instance lock
  life,       \* where each process is, and what its recovery still owes
  saved,      \* GammaHoldRegistry of the holder: screens with a saved table
  task,       \* how far the blank or wake of a screen has got, under the
              \*   operation lock of its slot
  crossed,    \* history: a blank and a recovery have met since the last restore
  stranded,   \* history: screens whose blank failed, and its rollback as well
  mishaps     \* how much of MaxMishaps is used up

gammaVars == <<table, crumb, flock, life, saved, task, crossed, stranded, mishaps>>

Life == [at   : {"off", "start", "up", "end"},
         owes : {"nothing", "restore", "clear"}]

GammaTypeOK ==
  /\ table \in [Screens -> {"lit", "dark"}]
  /\ crumb = NoFile \/ crumb \in (SUBSET Screens) \ {{}}
  /\ flock \in Daemons \cup {NoDaemon}
  /\ life \in [Daemons -> Life]
  /\ saved \subseteq Screens
  /\ task \in [Screens -> {"idle", "marked", "written", "replayed", "unheld"}]
  /\ crossed \in BOOLEAN /\ stranded \subseteq Screens
  /\ mishaps \in 0 .. MaxMishaps

Point(place, owed) == [at |-> place, owes |-> owed]

GammaInit ==
  /\ table = [s \in Screens |-> "lit"] /\ crumb = NoFile
  /\ flock = NoDaemon /\ life = [d \in Daemons |-> Point("off", "nothing")]
  /\ saved = {} /\ task = [s \in Screens |-> "idle"]
  /\ crossed = FALSE /\ stranded = {} /\ mishaps = 0

-----------------------------------------------------------------------------
(* Small helpers.                                                          *)

Mishap(n) == mishaps + n <= MaxMishaps /\ mishaps' = mishaps + n

Named == IF crumb = NoFile THEN {} ELSE crumb
FileOf(set) == IF set = {} THEN NoFile ELSE set

AllLit == [s \in Screens |-> "lit"]

\* A blank stands between its breadcrumb and its write.
SomeMarked == \E s \in Screens : task[s] = "marked"

\* A process that has looked for the breadcrumb and will act on what it saw.
Recovering(d) == life[d].at = "start" \/ life[d].owes # "nothing"

\* restore_stale_breadcrumb begins: the file is there or it is not.
Owing == IF crumb = NoFile THEN "nothing" ELSE "restore"

\* The end of a process: its holds, its tasks and its flock go with it.
Gone(d) ==
  /\ life' = [life EXCEPT ![d] = Point("off", "nothing")]
  /\ IF flock = d
     THEN /\ flock' = NoDaemon /\ saved' = {}
          /\ task' = [s \in Screens |-> "idle"]
     ELSE UNCHANGED <<flock, saved, task>>

-----------------------------------------------------------------------------
(* The life of a process.                                                  *)

\* run_startup_sequence: the check for a stale breadcrumb comes first.
Launch(d) ==
  /\ life[d].at = "off"
  /\ Mishap(IF d = Supervised THEN 0 ELSE 1)
  /\ life' = [life EXCEPT ![d] = Point("start", Owing)]
  /\ UNCHANGED <<table, crumb, flock, saved, task, crossed, stranded>>

RestoreAll(d) ==
  /\ life[d].owes = "restore"
  /\ table' = AllLit /\ stranded' = {}
  /\ crossed' = SomeMarked
  /\ life' = [life EXCEPT ![d].owes = "clear"]
  /\ UNCHANGED <<crumb, flock, saved, task, mishaps>>

\* GammaBreadcrumb::delete; a failure is only logged.
ClearCrumb(d) ==
  /\ life[d].owes = "clear"
  /\ life' = [life EXCEPT ![d].owes = "nothing"]
  /\ \/ crumb' = NoFile /\ UNCHANGED mishaps
     \/ Mishap(1) /\ UNCHANGED crumb
  /\ UNCHANGED <<table, flock, saved, task, crossed, stranded>>

\* boot: the process takes the flock and runs, or it fails to and goes to
\* the check of its end; a failure before boot skips that check.
TakeFlock(d) ==
  /\ life[d] = Point("start", "nothing")
  /\ \/ /\ flock = NoDaemon
        /\ flock' = d
        /\ life' = [life EXCEPT ![d] = Point("up", "nothing")]
        /\ UNCHANGED mishaps
     \/ /\ Mishap(IF flock = NoDaemon THEN 1 ELSE 0)
        /\ life' = [life EXCEPT ![d] = Point("end", Owing)]
        /\ UNCHANGED flock
     \/ /\ Mishap(1)
        /\ life' = [life EXCEPT ![d] = Point("off", "nothing")]
        /\ UNCHANGED flock
  /\ UNCHANGED <<table, crumb, saved, task, crossed, stranded>>

\* The run loop returns, without joining the commands that the engine has
\* spawned, and run_boot_with_shutdown_restore checks the breadcrumb.
RunLoopEnds(d) ==
  /\ life[d].at = "up"
  /\ Mishap(1)
  /\ life' = [life EXCEPT ![d] = Point("end", Owing)]
  /\ UNCHANGED <<table, crumb, flock, saved, task, crossed, stranded>>

\* The runtime is dropped, which waits for the poll a task is in; a blank or a
\* wake is one poll.
Leave(d) ==
  /\ life[d] = Point("end", "nothing")
  /\ flock = d => \A s \in Screens : task[s] = "idle"
  /\ Gone(d)
  /\ UNCHANGED <<table, crumb, crossed, mishaps, stranded>>

\* A crash or a kill.  The tables stay as they are.
Killed(d) ==
  /\ life[d].at # "off"
  /\ Mishap(1)
  /\ Gone(d)
  /\ UNCHANGED <<table, crumb, crossed, stranded>>

\* dormantctl emergency-wake restores the whole system beside the daemon, and
\* touches neither the holds nor the breadcrumb.
EmergencyRestore ==
  /\ Mishap(1)
  /\ table' = AllLit /\ stranded' = {}
  /\ UNCHANGED <<crumb, flock, life, saved, task, crossed>>

-----------------------------------------------------------------------------
(* The controller, whose commands run in the process that holds the flock. *)

Serves == flock # NoDaemon /\ life[flock].at \in {"up", "end"}

Reaches(s, place) == task' = [task EXCEPT ![s] = place]

\* blank, up to add_selector.  A hold that is occupied, a table that cannot be
\* read or is black already, and a breadcrumb that cannot be written end the
\* blank with nothing changed.
BlankMarks(s) ==
  /\ Serves /\ task[s] = "idle" /\ s \notin saved /\ table[s] = "lit"
  /\ \E unread \in BOOLEAN :       \* an unreadable file counts as none
       LET late == IF life[flock].at = "end" THEN 1 ELSE 0
       IN /\ unread => crumb # NoFile
          /\ Mishap(late + IF unread THEN 1 ELSE 0)
          /\ crumb' = (IF unread THEN {} ELSE Named) \cup {s}
          /\ crossed' = \/ crossed
                        \/ unread
                        \/ \E d \in Daemons : Recovering(d)
  /\ Reaches(s, "marked")
  /\ UNCHANGED <<table, flock, life, saved, stranded>>

\* A write can fail, or be accepted and not land.
Writes(s, value, next) ==
  \/ table' = [table EXCEPT ![s] = value] /\ Reaches(s, next) /\ UNCHANGED mishaps
  \/ Mishap(1) /\ UNCHANGED table /\ (Reaches(s, next) \/ Reaches(s, "idle"))

BlankWrites(s) ==
  /\ task[s] = "marked"
  /\ Writes(s, "dark", "written")
  /\ UNCHANGED <<crumb, flock, life, saved, crossed, stranded>>

\* The confirmation of the write: the hold, or the rollback to the table that
\* was read before, which may fail as well.
BlankConfirms(s) ==
  /\ task[s] = "written"
  /\ \/ /\ table[s] = "dark"
        /\ saved' = saved \cup {s}
        /\ UNCHANGED <<table, stranded, mishaps>>
     \/ /\ Mishap(IF table[s] = "dark" THEN 1 ELSE 0)
        /\ table' = [table EXCEPT ![s] = "lit"]
        /\ UNCHANGED <<saved, stranded>>
     \/ /\ Mishap(2)
        /\ stranded' = stranded \cup {s}
        /\ UNCHANGED <<table, saved>>
  /\ Reaches(s, "idle")
  /\ UNCHANGED <<crumb, flock, life, crossed>>

\* wake: without a hold there is nothing to do.
WakeReplays(s) ==
  /\ Serves /\ task[s] = "idle" /\ s \in saved
  /\ Writes(s, "lit", "replayed")
  /\ UNCHANGED <<crumb, flock, life, saved, crossed, stranded>>

\* The confirmation of the replay: the hold is given up only for a table that
\* reads as the saved one.
ConfirmsUnread(s) == TRUE
Confirms(s) == table[s] = "lit"

WakeConfirms(s) ==
  /\ task[s] = "replayed"
  /\ \/ Confirms(s) /\ saved' = saved \ {s} /\ Reaches(s, "unheld") /\ UNCHANGED mishaps
     \/ /\ Mishap(IF Confirms(s) THEN 1 ELSE 0)
        /\ Reaches(s, "idle") /\ UNCHANGED saved
  /\ UNCHANGED <<table, crumb, flock, life, crossed, stranded>>

\* remove_selector: the file goes with the last selector.
DroppingAll(s) == NoFile
Dropping(s) == FileOf(Named \ {s})

WakeUnmarks(s) ==
  /\ task[s] = "unheld"
  /\ \/ crumb' = Dropping(s) /\ UNCHANGED mishaps
     \/ Mishap(1) /\ UNCHANGED crumb
  /\ Reaches(s, "idle")
  /\ UNCHANGED <<table, flock, life, saved, crossed, stranded>>

-----------------------------------------------------------------------------
TaskSteps(s) ==
  BlankWrites(s) \/ BlankConfirms(s) \/ WakeConfirms(s) \/ WakeUnmarks(s)

Recovers(d) == RestoreAll(d) \/ ClearCrumb(d) \/ TakeFlock(d) \/ Leave(d)

GammaNext ==
  \/ \E d \in Daemons :
       Launch(d) \/ Recovers(d) \/ RunLoopEnds(d) \/ Killed(d)
  \/ EmergencyRestore
  \/ \E s \in Screens :
       BlankMarks(s) \/ WakeReplays(s) \/ TaskSteps(s)

\* The supervisor starts its daemon again; a process that is scheduled goes on.
GammaFairness ==
  /\ WF_gammaVars(Launch(Supervised))
  /\ \A d \in Daemons : WF_gammaVars(Recovers(d))
  /\ \A s \in Screens : WF_gammaVars(TaskSteps(s))

GammaSpec == GammaInit /\ [][GammaNext]_gammaVars /\ GammaFairness

-----------------------------------------------------------------------------
(* Properties.                                                             *)

\* A breadcrumb is on disk for as long as any screen is dark, whatever fails or
\* dies in between, except for a blank that met a recovery of this or another
\* process, or that found the breadcrumb unreadable.
DarkIsInsured ==
  (\E s \in Screens : table[s] = "dark") => crumb # NoFile \/ crossed

\* A daemon that runs has a hold on every screen that is dark and left alone, so
\* its wake has something to replay, with the same exception and that of a
\* rollback that failed.
DarkIsHeld ==
  \A s \in Screens :
    table[s] = "dark" /\ Serves /\ task[s] = "idle"
      => s \in saved \cup stranded \/ crossed

\* A dark screen has both its ways back: the breadcrumb for the next process,
\* and the hold of this one.
DarkHasWayBack == DarkIsInsured /\ DarkIsHeld

\* No screen stays dark for ever for want of somebody who could wake it: one that
\* died dark with its daemon is lit by the first process that starts, whichever
\* it is, with the exceptions above.
Wakeable(s) == s \in saved \/ (Serves /\ s \in stranded)

OrphansAreLit ==
  \A s \in Screens : []<>(table[s] = "lit" \/ Wakeable(s) \/ crossed)
=============================================================================
