----------------------------- MODULE Lifecycle ------------------------------
(***************************************************************************)
(* cmd/shepard/main.go: the process.  Three goroutines share it: main,     *)
(* which serves; the reloader, which turns SIGHUPs into calls of           *)
(* Gateway.Reload; and the stopper, which turns SIGTERM into a graceful    *)
(* shutdown.  Signals reach them through channels of capacity one, to      *)
(* which signal.Notify never blocks: a signal that finds its channel full  *)
(* is dropped.                                                             *)
(*                                                                         *)
(* The configuration file is a sequence of edits, each good, invalid (not  *)
(* loadable), or asking for another usage_db, which Reload refuses.        *)
(* net/http is external: Shutdown closes the listener at once, which makes *)
(* ListenAndServe return ErrServerClosed, and itself waits for the active  *)
(* requests or for its context.                                            *)
(***************************************************************************)
EXTENDS Integers, Sequences, FiniteSets

CONSTANTS
  Requests,  \* connections with one request each
  MaxEdits   \* bound on the edits of the configuration file

Kinds == {"good", "invalid", "otherDB"}

VARIABLES
  file,      \* the edits made so far; the last one is what Load reads
  asked,     \* history: the edit that was current at the last SIGHUP
  hup,       \* signals in the channel `reload', 0 or 1
  reloader,  \* the reloader: what it is doing, and the edit it has loaded
  running,   \* the edit the gateway runs
  main,      \* "start", "serve", "return", "exit", "gone"
  stopper,   \* "wait", "draining", "returned"
  term,      \* signals in the channel `stop', 0 or 1
  window,    \* the fifteen seconds given to Shutdown: "unset", "open", "over"
  usage,     \* the usage store: "open" or "closed"
  request    \* per request, "none", "active", "finished" or "cut"

reloadVars == <<file, asked, hup, reloader, running>>
serveVars == <<main, stopper, term, window, usage, request>>
vars == <<reloadVars, serveVars>>

Alive == main # "gone"

Init ==
  /\ file = <<"good">>
  /\ asked = 1
  /\ hup = 0
  /\ reloader = [at |-> "wait", edit |-> 1]
  /\ running = 1
  /\ main = "start"
  /\ stopper = "wait"
  /\ term = 0
  /\ window = "unset"
  /\ usage = "open"
  /\ request = [r \in Requests |-> "none"]

-----------------------------------------------------------------------------
(* The operator edits the file, and at some time sends SIGHUP. *)
Edit(kind) ==
  /\ Alive
  /\ Len(file) < MaxEdits
  /\ file' = Append(file, kind)
  /\ UNCHANGED <<asked, hup, reloader, running, serveVars>>

Hup ==
  /\ Alive
  /\ asked' = Len(file)
  /\ hup' = 1
  /\ UNCHANGED <<file, reloader, running, serveVars>>

(* for range reload *)
TakeHup ==
  /\ Alive
  /\ reloader.at = "wait"
  /\ hup = 1
  /\ hup' = 0
  /\ reloader' = [reloader EXCEPT !.at = "load"]
  /\ UNCHANGED <<file, asked, running, serveVars>>

(* config.Load: parse and validate; an invalid file ends this round. *)
Load ==
  /\ Alive
  /\ reloader.at = "load"
  /\ reloader' = IF file[Len(file)] = "invalid"
                 THEN [reloader EXCEPT !.at = "wait"]
                 ELSE [at |-> "apply", edit |-> Len(file)]
  /\ UNCHANGED <<file, asked, hup, running, serveVars>>

(* Mutant: the configuration is published before usage_db is compared. *)
ApplyUnchecked ==
  /\ Alive
  /\ reloader.at = "apply"
  /\ running' = reloader.edit
  /\ reloader' = [reloader EXCEPT !.at = "wait"]
  /\ UNCHANGED <<file, asked, hup, serveVars>>

(* Mutant: signals that arrived during the reload are discarded after it. *)
ApplyDraining ==
  /\ Alive
  /\ reloader.at = "apply"
  /\ running' = IF file[reloader.edit] = "otherDB" THEN running ELSE reloader.edit
  /\ reloader' = [reloader EXCEPT !.at = "wait"]
  /\ hup' = 0
  /\ UNCHANGED <<file, asked, serveVars>>

(* Gateway.Reload of what was loaded, which need not be the file any more. *)
Apply ==
  /\ Alive
  /\ reloader.at = "apply"
  /\ running' = IF file[reloader.edit] = "otherDB" THEN running ELSE reloader.edit
  /\ reloader' = [reloader EXCEPT !.at = "wait"]
  /\ UNCHANGED <<file, asked, hup, serveVars>>

-----------------------------------------------------------------------------
(* ListenAndServe binds its address; if it cannot, os.Exit(1). *)
Listen ==
  /\ main = "start"
  /\ stopper = "wait"
  /\ main' \in {"serve", "gone"}
  /\ UNCHANGED <<reloadVars, stopper, term, window, usage, request>>

Listening == main = "serve" /\ window = "unset"

Accept(r) ==
  /\ Listening
  /\ request[r] = "none"
  /\ request' = [request EXCEPT ![r] = "active"]
  /\ UNCHANGED <<reloadVars, main, stopper, term, window, usage>>

Finish(r) ==
  /\ Alive
  /\ request[r] = "active"
  /\ request' = [request EXCEPT ![r] = "finished"]
  /\ UNCHANGED <<reloadVars, main, stopper, term, window, usage>>

Term ==
  /\ Alive
  /\ term = 0
  /\ term' = 1
  /\ UNCHANGED <<reloadVars, main, stopper, window, usage, request>>

(* The stopper wakes and calls server.Shutdown. *)
Shutdown ==
  /\ Alive
  /\ stopper = "wait"
  /\ term = 1
  /\ term' = 0
  /\ stopper' = "draining"
  /\ window' = "open"
  /\ UNCHANGED <<reloadVars, main, usage, request>>

WindowOver ==
  /\ Alive
  /\ window = "open"
  /\ window' = "over"
  /\ UNCHANGED <<reloadVars, main, stopper, term, usage, request>>

Active == {r \in Requests : request[r] = "active"}

ShutdownReturns ==
  /\ Alive
  /\ stopper = "draining"
  /\ Active = {} \/ window = "over"
  /\ stopper' = "returned"
  /\ UNCHANGED <<reloadVars, main, term, window, usage, request>>

(* Mutant: the server is not told that it is closed. *)
ServeReturnsNever == FALSE /\ UNCHANGED vars

(* ListenAndServe returns ErrServerClosed as soon as Shutdown has closed    *)
(* the listener, or at once when it is called after; nothing in main waits  *)
(* for the stopper.                                                         *)
ServeReturns ==
  /\ main \in {"start", "serve"}
  /\ stopper # "wait"
  /\ main' = "return"
  /\ UNCHANGED <<reloadVars, stopper, term, window, usage, request>>

(* defer gw.Close() *)
CloseUsage ==
  /\ main = "return"
  /\ usage' = "closed"
  /\ main' = "exit"
  /\ UNCHANGED <<reloadVars, stopper, term, window, request>>

(* main returns: the process is gone, with every goroutine in it. *)
Exit ==
  /\ main = "exit"
  /\ main' = "gone"
  /\ request' = [r \in Requests |-> IF request[r] = "active" THEN "cut" ELSE request[r]]
  /\ UNCHANGED <<reloadVars, stopper, term, window, usage>>

Rest == ~Alive /\ UNCHANGED vars

Next ==
  \/ \E kind \in Kinds : Edit(kind)
  \/ Hup \/ TakeHup \/ Load \/ Apply
  \/ Listen
  \/ \E r \in Requests : Accept(r) \/ Finish(r)
  \/ Term \/ Shutdown \/ WindowOver \/ ShutdownReturns
  \/ ServeReturns \/ CloseUsage \/ Exit
  \/ Rest

Spec == Init /\ [][Next]_vars

(* The three goroutines are scheduled.  Nothing is assumed of the operator, *)
(* of clients or of how long requests take.                                 *)
FairSpec ==
  /\ Spec
  /\ WF_vars(TakeHup \/ Load \/ Apply)
  /\ WF_vars(Listen)
  /\ WF_vars(Shutdown) /\ WF_vars(ShutdownReturns) /\ WF_vars(WindowOver)
  /\ WF_vars(ServeReturns \/ CloseUsage \/ Exit)

-----------------------------------------------------------------------------
(***************************************************************************)
(* "A failed reload therefore leaves the running gateway untouched"        *)
(* (main.go:54): whatever is edited while a reload is under way, what runs *)
(* is an edit that could be loaded and applied.                            *)
(***************************************************************************)
OnlyGoodConfigRuns == file[running] = "good"

(***************************************************************************)
(* The channel of capacity one loses signals but no reload: an edit that   *)
(* was in place at the last SIGHUP ends up running, unless it is refused,  *)
(* edited again, or the process stops first.                               *)
(***************************************************************************)
HupIsHonoured ==
  \A e \in 1 .. MaxEdits :
    (asked = e /\ Len(file) = e /\ file[e] = "good")
      ~> (running = e \/ Len(file) > e \/ ~Alive)

(* SIGTERM ends the process, however long its requests would take. *)
TermEnds == (term = 1) ~> ~Alive

(***************************************************************************)
(* "Give in-flight streams a bounded window to finish cleanly"             *)
(* (main.go:73): a request is cut only when the window is over.            *)
(***************************************************************************)
InFlightGetTheirWindow ==
  \A r \in Requests : request[r] = "cut" => window = "over"
=============================================================================
