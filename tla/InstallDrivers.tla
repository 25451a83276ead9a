--------------------------- MODULE InstallDrivers ---------------------------
(***************************************************************************)
(* bblfshctl driver install --all and --recommended                        *)
(* (cmd/bblfshctl/cmd/driver_install.go), composed with the daemon's side  *)
(* of the calls, Storage.  The command hands the references to a fixed     *)
(* number of workers over the unbuffered channel jobs; each worker calls   *)
(* InstallDriver and puts the result into the channel out, which has room  *)
(* for all of them; the command shows the results as they come.            *)
(*                                                                         *)
(* The Callers of Storage are the workers, which wait for the daemon.      *)
(***************************************************************************)
EXTENDS Storage, Sequences

CONSTANTS
    Refs,       \* the references, [lang, img]: one for each language
    Update,     \* the flag --update
    ForceFlag   \* the flag --force

ASSUME RefsAssumption ==
    /\ Refs \in Seq([lang : Languages, img : Images])
    /\ Len(Refs) > 1
    /\ \A i, j \in DOMAIN Refs : Refs[i].lang = Refs[j].lang => i = j
    /\ \A i \in DOMAIN Refs : Lang[Refs[i].img] = Refs[i].lang
    /\ Update \in BOOLEAN /\ ForceFlag \in BOOLEAN

VARIABLES
    sent,       \* how many references have been sent to jobs
    closed,     \* jobs is closed
    job,        \* the index of the reference each worker has, 0 for none
    calling,    \* the workers that have called the daemon
    out,        \* the results in the channel out: [ref, ans]
    todo, errs, \* the command's counters: results to come, errors shown
    shown,      \* history: the references whose result was shown
    main        \* "install" or "exit"

ctlVars == <<sent, closed, job, calling, out, todo, errs, shown, main>>
allVars == <<vars, ctlVars>>

CtlInit ==
    /\ Init
    /\ sent = 0
    /\ closed = FALSE
    /\ job = [w \in Callers |-> 0]
    /\ calling = {}
    /\ out = <<>>
    /\ todo = Len(Refs)
    /\ errs = 0
    /\ shown = {}
    /\ main = "install"

\* The send of the select, to a worker that ranges over jobs.
SendJob(w) ==
    /\ main = "install" /\ todo > 0 /\ sent < Len(Refs)
    /\ job[w] = 0
    /\ sent' = sent + 1
    /\ job' = [job EXCEPT ![w] = sent + 1]
    /\ UNCHANGED <<vars, closed, calling, out, todo, errs, shown, main>>

\* installDriver: the call, and what its answer means.
CallInstallDriver(w) ==
    /\ job[w] # 0 /\ w \notin calling
    /\ Begin(w, [op |-> "install", lang |-> Refs[job[w]].lang, img |-> Refs[job[w]].img,
                 update |-> Update])
    /\ calling' = calling \cup {w}
    /\ UNCHANGED <<sent, closed, job, out, todo, errs, shown, main>>

\* The call has returned; the worker puts the result into out.
SendResult(w) ==
    /\ w \in calling /\ At(w, "idle")
    /\ Len(out) < Len(Refs)
    /\ out' = Append(out, [ref |-> job[w], ans |-> ans[w]])
    /\ job' = [job EXCEPT ![w] = 0]
    /\ calling' = calling \ {w}
    /\ UNCHANGED <<vars, sent, closed, todo, errs, shown, main>>

\* Mutant: an error of the connection is taken for success.
IsErrorOfDaemon(a) == a = "error" \/ (a = "already" /\ ~ForceFlag)

\* accept: "already installed" is no error with --force.
IsError(a) == ~(a = "ok" \/ (a = "already" /\ ForceFlag))

\* Mutant: nothing is received once jobs is closed.
AcceptNoDrain ==
    /\ main = "install" /\ todo > 0
    /\ sent < Len(Refs)
    /\ out # <<>>
    /\ out' = Tail(out)
    /\ todo' = todo - 1
    /\ errs' = IF IsError(Head(out).ans) THEN errs + 1 ELSE errs
    /\ shown' = shown \cup {Head(out).ref}
    /\ UNCHANGED <<vars, sent, closed, job, calling, main>>

\* Mutant: accept counts only what was installed.
AcceptInstalled ==
    /\ main = "install" /\ todo > 0
    /\ sent < Len(Refs) \/ closed
    /\ out # <<>>
    /\ out' = Tail(out)
    /\ todo' = IF IsError(Head(out).ans) THEN todo ELSE todo - 1
    /\ errs' = IF IsError(Head(out).ans) THEN errs + 1 ELSE errs
    /\ shown' = shown \cup {Head(out).ref}
    /\ UNCHANGED <<vars, sent, closed, job, calling, main>>

Accept ==
    /\ main = "install" /\ todo > 0
    /\ sent < Len(Refs) \/ closed
    /\ out # <<>>
    /\ out' = Tail(out)
    /\ todo' = todo - 1
    /\ errs' = IF IsError(Head(out).ans) THEN errs + 1 ELSE errs
    /\ shown' = shown \cup {Head(out).ref}
    /\ UNCHANGED <<vars, sent, closed, job, calling, main>>

\* All references are sent: jobs is closed, and from then on only out is read.
CloseJobs ==
    /\ main = "install" /\ todo > 0 /\ sent = Len(Refs) /\ ~closed
    /\ closed' = TRUE
    /\ UNCHANGED <<vars, sent, job, calling, out, todo, errs, shown, main>>

Finish ==
    /\ main = "install" /\ todo = 0
    /\ main' = "exit"
    /\ UNCHANGED <<vars, sent, closed, job, calling, out, todo, errs, shown>>

\* The daemon works on the calls.  Bound: it crashes at most once.
DaemonStep(w) == Step(w) /\ UNCHANGED ctlVars
DaemonCrash   == ~crashed /\ main = "install" /\ Crash /\ UNCHANGED ctlVars

CtlNext ==
    \/ \E w \in Callers :
          SendJob(w) \/ CallInstallDriver(w) \/ SendResult(w) \/ DaemonStep(w)
    \/ Accept \/ CloseJobs \/ Finish
    \/ DaemonCrash

\* Every goroutine that can go on does.
CtlFairness ==
    /\ \A w \in Callers : WF_allVars(CallInstallDriver(w) \/ SendResult(w) \/ DaemonStep(w))
    /\ WF_allVars((\E w \in Callers : SendJob(w)) \/ Accept \/ CloseJobs \/ Finish)

CtlSpec == CtlInit /\ [][CtlNext]_allVars /\ CtlFairness

-----------------------------------------------------------------------------

\* Every reference that was sent is at one place: with one worker, once in out,
\* or shown.  So the command reads as many results as it waits for, and out never
\* blocks a worker.
OnePlace ==
    /\ todo = Len(Refs) - Cardinality(shown)
    /\ \A r \in DOMAIN Refs :
          LET working == Cardinality({w \in Callers : job[w] = r})
              waiting == Cardinality({k \in DOMAIN out : out[k].ref = r})
          IN  working + waiting + (IF r \in shown THEN 1 ELSE 0) = (IF r <= sent THEN 1 ELSE 0)

\* When the command ends without an error, a driver of every language is
\* installed, and with --update it is the one that was asked for, even if the
\* daemon crashed meanwhile: whatever the crash interrupted is reported.
ReportTrue ==
    main = "exit" /\ errs = 0 =>
        \A r \in DOMAIN Refs : \E n \in Images :
            /\ Lang[n] = Refs[r].lang
            /\ Update => n = Refs[r].img
            /\ root[n] \cap conf[n] # {}

\* The command ends, whichever calls fail.
CommandEnds == <>(main = "exit")
=============================================================================
