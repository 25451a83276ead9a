----------------------------- MODULE ImageStore -----------------------------
(***************************************************************************)
(* What the daemon promises about its driver images: an image is installed *)
(* or it is not.  It appears and disappears in one step, within a call     *)
(* that asked for that, and a crash changes no image.                      *)
(***************************************************************************)
CONSTANTS Callers, Images, Digests, Lang, Requests, Idle

VARIABLES
    shown,  \* the installed images, with their versions
    work,   \* the request each caller waits for, or Idle
    done,   \* the callers whose request to remove has taken an image away
    ans     \* the last answer each caller got

vars == <<shown, work, done, ans>>

Init ==
    /\ shown \subseteq Images \X Digests
    /\ \A s, t \in shown : s[1] = t[1] => s = t
    /\ work = [c \in Callers |-> Idle]
    /\ done = {}
    /\ ans = [c \in Callers |-> "none"]

Start(c) ==
    /\ work[c] = Idle
    /\ work'[c] \in Requests
    /\ work' = [work EXCEPT ![c] = work'[c]]
    /\ ans' = [ans EXCEPT ![c] = "none"]
    /\ UNCHANGED <<shown, done>>

\* Only an update or a removal takes an image away, its own or one of the
\* language it names.
Withdraw(c) ==
    /\ work[c] # Idle
    /\ work[c].op = "remove" \/ (work[c].op = "install" /\ work[c].update)
    /\ \E s \in shown :
          /\ Lang[s[1]] = work[c].lang \/ s[1] = work[c].img
          /\ shown' = shown \ {s}
    /\ done' = IF work[c].op = "remove" THEN done \cup {c} ELSE done
    /\ UNCHANGED <<work, ans>>

\* The image that was asked for appears and the call succeeds, in one step.
Publish(c) ==
    /\ work[c] # Idle
    /\ work[c].op = "install"
    /\ \A s \in shown : s[1] # work[c].img
    /\ \E d \in Digests : shown' = shown \cup {<<work[c].img, d>>}
    /\ work' = [work EXCEPT ![c] = Idle]
    /\ ans' = [ans EXCEPT ![c] = "ok"]
    /\ UNCHANGED done

\* Any other answer.  A removal succeeds only if it took an image away, an update
\* only by Publish, and what is already installed is there.
Answer(c) ==
    /\ work[c] # Idle
    /\ ans'[c] \in {"ok", "already", "error"}
    /\ ans'[c] = "ok" /\ work[c].op = "remove" => c \in done
    /\ ans'[c] = "ok" /\ work[c].op = "install" => ~work[c].update
    /\ ans'[c] = "already" => /\ work[c].op = "install" /\ ~work[c].update
                              /\ \E s \in shown : Lang[s[1]] = work[c].lang
    /\ work' = [work EXCEPT ![c] = Idle]
    /\ ans' = [ans EXCEPT ![c] = ans'[c]]
    /\ done' = done \ {c}
    /\ UNCHANGED shown

Crash ==
    /\ work' = [c \in Callers |-> Idle]
    /\ done' = {}
    /\ ans' = [c \in Callers |-> IF work[c] = Idle THEN ans[c] ELSE "unavailable"]
    /\ UNCHANGED shown

Next ==
    \/ \E c \in Callers : Start(c) \/ Withdraw(c) \/ Publish(c) \/ Answer(c)
    \/ Crash

Spec == Init /\ [][Next]_vars
=============================================================================
