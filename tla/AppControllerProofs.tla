-------------------------- MODULE AppControllerProofs --------------------------
(***************************************************************************)
(* Theorems about AppController, for every set of transactions, queries    *)
(* and overlapping searches, and without bounds on commits and calls other *)
(* than that they are natural numbers.                                     *)
(***************************************************************************)
EXTENDS AppController, FiniteSetTheorems, SequenceTheorems, TLAPS

Fields == {"at", "newest", "newestList", "query", "offset", "page", "read", "during"}

Shaped(f) == DOMAIN f = Calls /\ \A c \in Calls : DOMAIN f[c] = Fields

UnderWay(f, c) == f[c].at # "none"

(* A flag is up exactly while its call is under way.                       *)
FlagsMatchCalls ==
  /\ busy = UnderWay(calls, "run")
  /\ processingResume = UnderWay(calls, "resume")

(* At most one refresh is the newest, and it was read no earlier than what *)
(* is shown.                                                               *)
NewestReadsLater ==
  /\ commits \in Nat
  /\ dashboardData # None => dashboardData \in 0 .. commits
  /\ \A c \in Calls : calls[c].newest =>
       /\ calls[c].read \in 0 .. commits
       /\ dashboardData # None => calls[c].read >= dashboardData
       /\ \A d \in Calls : calls[d].newest => d = c

IInv == Shaped(calls) /\ FlagsMatchCalls /\ PendingHasOwner /\ NewestReadsLater

--------------------------------------------------------------------------------
(* What the operators on calls do.                                         *)

LEMMA CallNames ==
  /\ {"init", "resume", "run", "caller", "retry", "more"} \subseteq Calls
  /\ Searches \subseteq Calls
  /\ \A s \in Searches : s # "resume" /\ s # "run"
BY ControllerAssumption DEF Calls, Refreshers

LEMMA NoCallShaped ==
  DOMAIN NoCall = Fields /\ NoCall.at = "none" /\ ~NoCall.newest
BY DEF NoCall, Fields

LEMMA AskShaped ==
  ASSUME NEW query, NEW offset, NEW rows, NEW at
  PROVE  /\ DOMAIN Ask(query, offset, rows, at) = Fields
         /\ Ask(query, offset, rows, at).at = "list"
         /\ ~Ask(query, offset, rows, at).newest
         /\ Ask(query, offset, rows, at).read = at
BY DEF Ask, Fields

(* A new refresh is the newest; nothing else changes but who was.          *)
LEMMA RefreshingIsNewest ==
  ASSUME Shaped(calls), NEW c \in Calls, NEW rows, NEW at
  PROVE  LET f == Refreshing(c, rows, at)
         IN  /\ Shaped(f)
             /\ f[c].at = "list" /\ f[c].newest /\ f[c].read = at
             /\ \A d \in Calls \ {c} : f[d].at = calls[d].at /\ ~f[d].newest
<1> DEFINE a == Ask(transactionQuery, 0, rows, at)
           f == Refreshing(c, rows, at)
<1>1. DOMAIN a = Fields /\ a.at = "list" /\ a.read = at
  BY AskShaped
<1> HIDE DEF a
<1>2. f = [d \in Calls |->
             IF d = c THEN [a EXCEPT !.newest = TRUE]
             ELSE [calls[d] EXCEPT !.newest = FALSE, !.newestList = FALSE]]
  BY DEF Refreshing, a
<1>3. f[c].at = "list" /\ f[c].newest /\ f[c].read = at /\ DOMAIN f[c] = Fields
  BY <1>1, <1>2 DEF Fields
<1>4. ASSUME NEW d \in Calls \ {c}
      PROVE  f[d].at = calls[d].at /\ ~f[d].newest /\ DOMAIN f[d] = Fields
  <2>1. f[d] = [calls[d] EXCEPT !.newest = FALSE, !.newestList = FALSE]
    BY <1>2
  <2>2. DOMAIN calls[d] = Fields
    BY DEF Shaped
  <2> DEFINE r == calls[d]
             g == [r EXCEPT !.newest = FALSE, !.newestList = FALSE]
  <2> HIDE DEF r, f
  <2>3. DOMAIN r = Fields => g.at = r.at /\ ~g.newest /\ DOMAIN g = Fields
    BY DEF Fields
  <2>4. QED
    BY <2>1, <2>2, <2>3 DEF r
<1>5. DOMAIN f = Calls
  BY <1>2
<1>6. QED
  BY <1>3, <1>4, <1>5 DEF Shaped

(* The end of a call ends only that call, and begins a pass if it is to.   *)
LEMMA EndedEnds ==
  ASSUME NEW rest, Shaped(rest), NEW c \in {"run", "resume"}, NEW b \in BOOLEAN
  PROVE  LET f == Ended(c, rest, b)
         IN  /\ Shaped(f)
             /\ c = "run" => ~UnderWay(f, "run")
             /\ c = "resume" => (UnderWay(f, "run") <=> UnderWay(rest, "run"))
             /\ UnderWay(f, "resume") <=>
                  (b \/ (c = "run" /\ UnderWay(rest, "resume")))
             /\ \A d \in Calls : f[d].newest => f[d] = rest[d]
<1> DEFINE f == Ended(c, rest, b)
<1>1. "run" \in Calls /\ "resume" \in Calls
  BY CallNames
<1>2. DOMAIN f = Calls
  BY DEF Ended, Shaped
<1>3. /\ f["resume"] = IF b THEN [NoCall EXCEPT !.at = "write"]
                       ELSE IF c = "resume" THEN NoCall ELSE rest["resume"]
      /\ \A d \in Calls \ {"resume"} : f[d] = IF d = c THEN NoCall ELSE rest[d]
  BY <1>1 DEF Ended, Shaped
<1>4. LET w == [NoCall EXCEPT !.at = "write"]
      IN  DOMAIN w = Fields /\ w.at = "write" /\ ~w.newest
  BY DEF NoCall, Fields
<1>5. QED
  BY <1>1, <1>2, <1>3, <1>4, NoCallShaped DEF Shaped, UnderWay

(* The simple changes of one call.                                         *)
LEMMA CallOver ==
  ASSUME Shaped(calls), NEW c \in Calls, calls' = [calls EXCEPT ![c] = NoCall]
  PROVE  /\ Shaped(calls')
         /\ ~UnderWay(calls', c)
         /\ \A d \in Calls \ {c} : calls'[d] = calls[d]
         /\ \A d \in Calls : calls'[d].newest => calls'[d] = calls[d]
BY NoCallShaped DEF Shaped, UnderWay

LEMMA CallMoves ==
  ASSUME Shaped(calls), NEW c \in Calls, NEW at,
         calls' = [calls EXCEPT ![c].at = at]
  PROVE  /\ Shaped(calls')
         /\ calls'[c].at = at
         /\ \A d \in Calls \ {c} : calls'[d] = calls[d]
         /\ \A d \in Calls : /\ calls'[d].newest = calls[d].newest
                             /\ calls'[d].read = calls[d].read
BY DEF Shaped, Fields

--------------------------------------------------------------------------------
(* What is shown and the newest refresh.                                   *)

LEMMA NewestKept ==
  ASSUME NewestReadsLater, commits' = commits, dashboardData' = dashboardData,
         \A d \in Calls : calls'[d].newest =>
            calls[d].newest /\ calls'[d].read = calls[d].read
  PROVE  NewestReadsLater'
BY DEF NewestReadsLater

LEMMA NewestRefreshes ==
  ASSUME IInv, NEW c \in Calls, commits' \in {commits, commits + 1},
         dashboardData' = dashboardData, calls' = Refreshing(c, db', commits')
  PROVE  NewestReadsLater' /\ Shaped(calls') /\ calls'[c].at = "list"
         /\ \A d \in Calls \ {c} : calls'[d].at = calls[d].at
<1> DEFINE f == Refreshing(c, db', commits')
<1>1. /\ Shaped(f)
      /\ f[c].at = "list" /\ f[c].newest /\ f[c].read = commits'
      /\ \A d \in Calls \ {c} : f[d].at = calls[d].at /\ ~f[d].newest
  BY RefreshingIsNewest DEF IInv
<1>2. calls' = f
  OBVIOUS
<1> HIDE DEF f
<1>3. commits' \in Nat /\ commits' >= commits
      /\ (dashboardData' # None => dashboardData' \in 0 .. commits')
  BY DEF IInv, NewestReadsLater
<1>4. QED
  BY <1>1, <1>2, <1>3 DEF NewestReadsLater

LEMMA NewestShown ==
  ASSUME IInv, NEW c \in Calls, Show(c), commits' = commits, ~calls'[c].newest,
         \A d \in Calls : calls'[d].newest => calls'[d] = calls[d]
  PROVE  NewestReadsLater'
<1>1. dashboardData' = IF calls[c].newest THEN calls[c].read ELSE dashboardData
  BY DEF Show
<1>2. CASE calls[c].newest
  BY <1>1, <1>2 DEF IInv, NewestReadsLater
<1>3. CASE ~calls[c].newest
  <2>1. dashboardData' = dashboardData
    BY <1>1, <1>3
  <2>2. QED
    BY <2>1, NewestKept DEF IInv
<1>4. QED
  BY <1>2, <1>3

--------------------------------------------------------------------------------
(* The end of run or of a pass keeps what is said of flags and of the      *)
(* queue.                                                                  *)
LEMMA FinallyKeeps ==
  ASSUME IInv, NEW rest, Shaped(rest),
         UnderWay(rest, "run") <=> UnderWay(calls, "run"),
         UnderWay(rest, "resume") <=> UnderWay(calls, "resume"),
         NEW c \in {"run", "resume"},
         c = "run" => busy' = FALSE /\ FinallyResume(c, rest, processingResume),
         c = "resume" => busy' = busy /\ FinallyResume(c, rest, busy)
  PROVE  /\ Shaped(calls') /\ FlagsMatchCalls' /\ PendingHasOwner'
         /\ \A d \in Calls : calls'[d].newest => calls'[d] = rest[d]
<1> DEFINE other == IF c = "run" THEN processingResume ELSE busy
           taken == resumeRefreshPending /\ ~other
           begins == taken /\ ~initializing
<1>1. FinallyResume(c, rest, other)
  OBVIOUS
<1>2. /\ resumeRefreshPending' = (resumeRefreshPending /\ ~taken)
      /\ processingResume' = (begins \/ (processingResume /\ c # "resume"))
      /\ calls' = Ended(c, rest, begins)
  BY <1>1 DEF FinallyResume
<1>3. begins \in BOOLEAN
  OBVIOUS
<1> HIDE DEF begins
<1> DEFINE f == Ended(c, rest, begins)
<1>4. /\ Shaped(f)
      /\ c = "run" => ~UnderWay(f, "run")
      /\ c = "resume" => (UnderWay(f, "run") <=> UnderWay(rest, "run"))
      /\ UnderWay(f, "resume") <=>
           (begins \/ (c = "run" /\ UnderWay(rest, "resume")))
      /\ \A d \in Calls : f[d].newest => f[d] = rest[d]
  BY <1>3, EndedEnds
<1>5. calls' = f
  BY <1>2
<1> HIDE DEF f
<1>6. FlagsMatchCalls'
  BY <1>2, <1>4, <1>5 DEF IInv, FlagsMatchCalls, UnderWay
<1>7. PendingHasOwner'
  BY <1>2, <1>6 DEF IInv, FlagsMatchCalls, PendingHasOwner, UnderWay
<1>8. QED
  BY <1>4, <1>6, <1>7, <1>5

(* It holds when the app starts.                                           *)
LEMMA InitIInv == Init => IInv
<1> SUFFICES ASSUME Init
             PROVE  IInv
  OBVIOUS
<1>1. /\ \A c \in Calls : calls[c] = IF c = "init" THEN [NoCall EXCEPT !.at = "open"]
                                    ELSE NoCall
      /\ DOMAIN calls = Calls
  BY DEF Init
<1>2. \A c \in Calls : DOMAIN calls[c] = Fields /\ ~calls[c].newest
  BY <1>1 DEF NoCall, Fields
<1>3. calls["run"].at = "none" /\ calls["resume"].at = "none"
  BY <1>1, CallNames, NoCallShaped
<1>4. QED
  BY <1>1, <1>2, <1>3
     DEF Init, IInv, Shaped, FlagsMatchCalls, UnderWay, PendingHasOwner, NewestReadsLater

--------------------------------------------------------------------------------
(* Steps of calls other than run and a pass leave the flags alone.         *)
LEMMA OthersKeepFlags ==
  ASSUME IInv, UNCHANGED <<busy, processingResume, resumeRefreshPending>>,
         (calls'["run"].at = "none") <=> (calls["run"].at = "none"),
         (calls'["resume"].at = "none") <=> (calls["resume"].at = "none")
  PROVE  FlagsMatchCalls' /\ PendingHasOwner'
BY DEF IInv, FlagsMatchCalls, PendingHasOwner, UnderWay

(* A call that ends without a word to the flags.                           *)
LEMMA OtherEnds ==
  ASSUME IInv, NEW c \in Calls \ {"run", "resume"},
         calls' = [calls EXCEPT ![c] = NoCall],
         UNCHANGED <<commits, busy, processingResume, resumeRefreshPending>>,
         UNCHANGED dashboardData \/ Show(c)
  PROVE  IInv'
<1>1. /\ Shaped(calls') /\ ~calls'[c].newest
      /\ \A d \in Calls \ {c} : calls'[d] = calls[d]
      /\ \A d \in Calls : calls'[d].newest => calls'[d] = calls[d]
  <2>1. calls'[c] = NoCall
    BY DEF IInv, Shaped
  <2>2. QED
    BY <2>1, CallOver, NoCallShaped DEF IInv
<1>2. FlagsMatchCalls' /\ PendingHasOwner'
  BY <1>1, CallNames, OthersKeepFlags
<1>3. NewestReadsLater'
  <2>1. CASE Show(c)
    BY <1>1, <2>1, NewestShown
  <2>2. CASE UNCHANGED dashboardData
    BY <1>1, <2>2, NewestKept DEF IInv
  <2>3. QED
    BY <2>1, <2>2
<1>4. QED
  BY <1>1, <1>2, <1>3 DEF IInv

(* A call that asks for a refresh, having waited for something else.       *)
LEMMA OtherRefreshes ==
  ASSUME IInv, NEW c \in Calls, commits' \in {commits, commits + 1},
         c \in {"run", "resume"} => calls[c].at = "write",
         calls' = Refreshing(c, db', commits'),
         UNCHANGED <<dashboardData, busy, processingResume, resumeRefreshPending>>
  PROVE  IInv'
<1>1. NewestReadsLater' /\ Shaped(calls') /\ calls'[c].at = "list"
      /\ \A d \in Calls \ {c} : calls'[d].at = calls[d].at
  BY NewestRefreshes
<1>2. FlagsMatchCalls' /\ PendingHasOwner'
  BY <1>1, CallNames, OthersKeepFlags
<1>3. QED
  BY <1>1, <1>2 DEF IInv

(* A call that begins or goes on to wait for something else.               *)
LEMMA OtherMoves ==
  ASSUME IInv, NEW c \in Calls \ {"run", "resume"}, NEW at,
         calls' = [calls EXCEPT ![c].at = at],
         UNCHANGED <<commits, dashboardData, busy, processingResume,
                     resumeRefreshPending>>
  PROVE  IInv'
<1>1. /\ Shaped(calls')
      /\ \A d \in Calls \ {c} : calls'[d] = calls[d]
      /\ \A d \in Calls : /\ calls'[d].newest = calls[d].newest
                          /\ calls'[d].read = calls[d].read
  BY CallMoves DEF IInv
<1>2. FlagsMatchCalls' /\ PendingHasOwner'
  BY <1>1, CallNames, OthersKeepFlags
<1>3. NewestReadsLater'
  BY <1>1, NewestKept DEF IInv
<1>4. QED
  BY <1>1, <1>2, <1>3 DEF IInv

(* The end of run or of a pass, with or without something to show.         *)
LEMMA OwnerEnds ==
  ASSUME IInv, NEW c \in {"run", "resume"},
         c = "run" => busy' = FALSE /\ FinallyResume(c, calls, processingResume),
         c = "resume" => busy' = busy /\ FinallyResume(c, calls, busy),
         commits' = commits, UNCHANGED dashboardData \/ Show(c)
  PROVE  IInv'
<1>1. Shaped(calls)
  BY DEF IInv
<1>2. /\ Shaped(calls') /\ FlagsMatchCalls' /\ PendingHasOwner'
      /\ \A d \in Calls : calls'[d].newest => calls'[d] = calls[d]
  BY <1>1, FinallyKeeps
<1>3. c \in Calls
  BY CallNames
<1>4. ~calls'[c].newest
  <2>1. PICK b : calls' = Ended(c, calls, b)
    BY DEF FinallyResume
  <2>2. QED
    BY <1>1, <1>3, <2>1, CallNames DEF Ended, Shaped, NoCall
<1>5. NewestReadsLater'
  <2>1. CASE Show(c)
    BY <1>2, <1>3, <1>4, <2>1, NewestShown
  <2>2. CASE UNCHANGED dashboardData
    BY <1>2, <2>2, NewestKept DEF IInv
  <2>3. QED
    BY <2>1, <2>2
<1>6. QED
  BY <1>2, <1>5 DEF IInv

--------------------------------------------------------------------------------
(* Actions that begin something.                                           *)

(* A resume of the app begins a pass, or is queued behind its owner.       *)
LEMMA AppResumedKeeps == IInv /\ AppResumed => IInv'
<1> SUFFICES ASSUME IInv, AppResumed
             PROVE  IInv'
  OBVIOUS
<1>1. UNCHANGED <<commits, dashboardData, busy>>
  BY DEF AppResumed, database
<1>2. CASE busy \/ processingResume
  <2>1. UNCHANGED <<processingResume, calls>>
    BY <1>2 DEF AppResumed
  <2>2. FlagsMatchCalls' /\ PendingHasOwner'
    BY <1>1, <1>2, <2>1 DEF IInv, FlagsMatchCalls, PendingHasOwner, UnderWay
  <2>3. QED
    BY <1>1, <2>1, <2>2, NewestKept DEF IInv, Shaped
<1>3. CASE ~(busy \/ processingResume)
  <2>1. /\ resumeRefreshPending' = FALSE /\ processingResume' = TRUE
        /\ calls' = [calls EXCEPT !["resume"].at = "write"]
    BY <1>3 DEF AppResumed
  <2>2. /\ Shaped(calls') /\ calls'["resume"].at = "write"
        /\ \A d \in Calls \ {"resume"} : calls'[d] = calls[d]
        /\ \A d \in Calls : /\ calls'[d].newest = calls[d].newest
                            /\ calls'[d].read = calls[d].read
    BY <2>1, CallNames, CallMoves DEF IInv
  <2>3. FlagsMatchCalls' /\ PendingHasOwner'
    BY <1>1, <2>1, <2>2, CallNames
       DEF IInv, FlagsMatchCalls, PendingHasOwner, UnderWay
  <2>4. QED
    BY <1>1, <2>2, <2>3, NewestKept DEF IInv
<1>4. QED
  BY <1>2, <1>3

(* A write begins only when none is under way.                             *)
LEMMA RunBeginsKeeps == IInv /\ RunBegins => IInv'
<1> SUFFICES ASSUME IInv, RunBegins
             PROVE  IInv'
  OBVIOUS
<1>1. /\ UNCHANGED <<commits, dashboardData, processingResume, resumeRefreshPending>>
      /\ ~busy /\ busy' = TRUE
      /\ calls' = [calls EXCEPT !["run"].at = "write"]
  BY DEF RunBegins, database
<1>2. /\ Shaped(calls') /\ calls'["run"].at = "write"
      /\ \A d \in Calls \ {"run"} : calls'[d] = calls[d]
      /\ \A d \in Calls : /\ calls'[d].newest = calls[d].newest
                          /\ calls'[d].read = calls[d].read
  BY <1>1, CallNames, CallMoves DEF IInv
<1>3. FlagsMatchCalls' /\ PendingHasOwner'
  BY <1>1, <1>2, CallNames DEF IInv, FlagsMatchCalls, PendingHasOwner, UnderWay
<1>4. QED
  BY <1>1, <1>2, <1>3, NewestKept DEF IInv

(* A search takes the newest list and no refresh.                          *)
LEMMA SearchBeginsKeeps ==
  ASSUME NEW s \in Searches
  PROVE  IInv /\ SearchBegins(s) => IInv'
<1> SUFFICES ASSUME IInv, SearchBegins(s)
             PROVE  IInv'
  OBVIOUS
<1>1. UNCHANGED <<commits, dashboardData, busy, processingResume, resumeRefreshPending>>
  BY DEF SearchBegins, database, flags
<1>2. PICK query \in Queries :
        calls' = [c \in Calls |-> IF c = s THEN Ask(query, 0, db, commits)
                                  ELSE [calls[c] EXCEPT !.newestList = FALSE]]
  BY DEF SearchBegins
<1> DEFINE a == Ask(query, 0, db, commits)
<1>3. DOMAIN a = Fields /\ ~a.newest
  BY AskShaped
<1> HIDE DEF a
<1>4. ASSUME NEW d \in Calls \ {s}
      PROVE  /\ DOMAIN calls'[d] = Fields
             /\ calls'[d].at = calls[d].at
             /\ calls'[d].newest = calls[d].newest /\ calls'[d].read = calls[d].read
  <2> DEFINE r == calls[d]
             g == [r EXCEPT !.newestList = FALSE]
  <2>1. calls'[d] = g /\ DOMAIN r = Fields
    BY <1>2 DEF IInv, Shaped
  <2> HIDE DEF r
  <2>2. DOMAIN r = Fields =>
          /\ DOMAIN g = Fields /\ g.at = r.at
          /\ g.newest = r.newest /\ g.read = r.read
    BY DEF Fields
  <2> HIDE DEF g
  <2>3. QED
    BY <2>1, <2>2 DEF r
<1>5. s \in Calls /\ s # "run" /\ s # "resume"
  BY CallNames
<1>6. calls'[s] = a /\ DOMAIN calls' = Calls
  BY <1>2, <1>5 DEF a
<1>7. Shaped(calls')
  BY <1>3, <1>4, <1>6 DEF Shaped
<1>8. FlagsMatchCalls' /\ PendingHasOwner'
  BY <1>1, <1>4, <1>5, CallNames, OthersKeepFlags
<1>9. NewestReadsLater'
  BY <1>1, <1>3, <1>4, <1>6, NewestKept DEF IInv
<1>10. QED
  BY <1>7, <1>8, <1>9 DEF IInv

(* A further page takes no number.                                         *)
LEMMA MoreBeginsKeeps == IInv /\ MoreBegins => IInv'
<1> SUFFICES ASSUME IInv, MoreBegins
             PROVE  IInv'
  OBVIOUS
<1> DEFINE a == Ask(transactionQuery, loadedTransactionCount, db, commits)
           b == \E c \in Calls : calls[c].newestList
           g == [a EXCEPT !.during = b]
<1>1. UNCHANGED <<commits, dashboardData, busy, processingResume, resumeRefreshPending>>
  BY DEF MoreBegins, database, flags
<1>2. calls' = [calls EXCEPT !["more"] = g]
  BY DEF MoreBegins
<1>3. DOMAIN a = Fields /\ ~a.newest
  BY AskShaped
<1> HIDE DEF a, b
<1>4. DOMAIN g = Fields /\ ~g.newest
  BY <1>3 DEF Fields
<1> HIDE DEF g
<1>5. /\ Shaped(calls') /\ calls'["more"] = g
      /\ \A d \in Calls \ {"more"} : calls'[d] = calls[d]
  BY <1>2, <1>4, CallNames DEF IInv, Shaped
<1>6. FlagsMatchCalls' /\ PendingHasOwner'
  BY <1>1, <1>5, CallNames, OthersKeepFlags
<1>7. NewestReadsLater'
  BY <1>1, <1>4, <1>5, NewestKept DEF IInv
<1>8. QED
  BY <1>5, <1>6, <1>7 DEF IInv

(* A write that leaves the refresh to its caller.                          *)
LEMMA RunCommitsOnlyKeeps == IInv /\ RunCommitsOnly => IInv'
<1> SUFFICES ASSUME IInv, RunCommitsOnly
             PROVE  IInv'
  OBVIOUS
<1> DEFINE rest == [calls EXCEPT !["caller"].at = "later"]
<1>1. /\ commits' = commits + 1 /\ dashboardData' = dashboardData
      /\ busy' = FALSE /\ FinallyResume("run", rest, processingResume)
  BY DEF RunCommitsOnly, Commit
<1>2. /\ Shaped(rest)
      /\ \A d \in Calls \ {"caller"} : rest[d] = calls[d]
      /\ \A d \in Calls : rest[d].newest = calls[d].newest /\ rest[d].read = calls[d].read
  BY CallNames DEF IInv, Shaped, Fields
<1> HIDE DEF rest
<1>3. /\ UnderWay(rest, "run") <=> UnderWay(calls, "run")
      /\ UnderWay(rest, "resume") <=> UnderWay(calls, "resume")
  BY <1>2, CallNames DEF UnderWay
<1>4. /\ Shaped(calls') /\ FlagsMatchCalls' /\ PendingHasOwner'
      /\ \A d \in Calls : calls'[d].newest => calls'[d] = rest[d]
  BY <1>1, <1>2, <1>3, FinallyKeeps
<1>5. NewestReadsLater'
  BY <1>1, <1>2, <1>4 DEF IInv, NewestReadsLater
<1>6. QED
  BY <1>4, <1>5 DEF IInv

--------------------------------------------------------------------------------
(* The invariant is kept by every step.                                    *)
LEMMA StepIInv == IInv /\ [Next]_vars => IInv'
<1> SUFFICES ASSUME IInv, [Next]_vars
             PROVE  IInv'
  OBVIOUS
<1>1. CASE UNCHANGED vars
  BY <1>1 DEF vars, database, timeline, flags, messages, IInv, Shaped,
              FlagsMatchCalls, UnderWay, PendingHasOwner, NewestReadsLater
<1>2. CASE AppResumed
  BY <1>2, AppResumedKeeps
<1>3. CASE RunBegins
  BY <1>3, RunBeginsKeeps
<1>4. CASE MoreBegins
  BY <1>4, MoreBeginsKeeps
<1>5. CASE InitializeAgain
  BY <1>5, CallNames, OtherMoves DEF InitializeAgain, database
<1>6. CASE RetryBegins
  BY <1>6, CallNames, OtherRefreshes DEF RetryBegins, database, flags
<1>7. CASE clearError \/ clearNotice
  BY <1>7 DEF clearError, clearNotice, database, flags, IInv, Shaped,
              FlagsMatchCalls, UnderWay, PendingHasOwner, NewestReadsLater
<1>8. ASSUME NEW s \in Searches
      PROVE  /\ SearchBegins(s) => IInv'
             /\ SearchShows(s) => IInv'
             /\ ListFails(s) => IInv'
  BY CallNames, SearchBeginsKeeps, OtherEnds
     DEF SearchShows, ListFails, database, flags
<1>9. CASE PassAnswered
  <2>1. CASE PassGenerates
    BY <2>1, CallNames, OtherRefreshes DEF PassGenerates, Commit, database, flags
  <2>2. CASE PassFails
    BY <2>2, OwnerEnds DEF PassFails, database
  <2>3. CASE PassShows
    BY <2>3, OwnerEnds DEF PassShows, database
  <2>4. QED
    BY <1>9, <2>1, <2>2, <2>3 DEF PassAnswered
<1>10. CASE InitAnswered
  <2>1. CASE InitOpens
    BY <2>1, CallNames, OtherMoves DEF InitOpens, flags
  <2>2. CASE InitGenerates
    BY <2>2, CallNames, OtherRefreshes DEF InitGenerates, Commit, database, flags
  <2>3. CASE InitShows
    BY <2>3, CallNames, OtherEnds DEF InitShows, database
  <2>4. CASE InitFails
    BY <2>4, CallNames, OtherEnds DEF InitFails
  <2>5. QED
    BY <1>10, <2>1, <2>2, <2>3, <2>4 DEF InitAnswered
<1>11. CASE RunAnswered
  <2>1. CASE RunFails
    BY <2>1, OwnerEnds DEF RunFails, database
  <2>2. CASE RunCommits
    BY <2>2, CallNames, OtherRefreshes DEF RunCommits, Commit, database, flags
  <2>3. CASE RunShows
    BY <2>3, OwnerEnds DEF RunShows, database
  <2>4. CASE RunNotRefreshed
    BY <2>4, OwnerEnds DEF RunNotRefreshed, database
  <2>5. CASE RunCommitsOnly
    BY <2>5, RunCommitsOnlyKeeps
  <2>6. QED
    BY <1>11, <2>1, <2>2, <2>3, <2>4, <2>5 DEF RunAnswered
<1>12. CASE CallerAnswered
  <2>1. CASE CallerRefreshes
    BY <2>1, CallNames, OtherRefreshes DEF CallerRefreshes, database, flags
  <2>2. CASE CallerShows
    BY <2>2, CallNames, OtherEnds DEF CallerShows, database, flags
  <2>3. QED
    BY <1>12, <2>1, <2>2 DEF CallerAnswered
<1>13. CASE RetryAnswered
  BY <1>13, CallNames, OtherEnds DEF RetryAnswered, RetryShows, RetryFails, database, flags
<1>14. CASE MoreShows \/ ListFails("more")
  BY <1>14, CallNames, OtherEnds DEF MoreShows, ListFails, database, flags
<1>15. CASE WrittenElsewhere
  BY <1>15, CallNames, OtherRefreshes DEF WrittenElsewhere, Commit, database, flags
<1>16. QED
  BY <1>1, <1>2, <1>3, <1>4, <1>5, <1>6, <1>7, <1>8, <1>9, <1>10, <1>11, <1>12,
     <1>13, <1>14, <1>15 DEF Next, UserActs

(* A queued resume always has an owner whose end will start it.            *)
THEOREM PendingResumeHasOwner == Spec => []PendingHasOwner
<1>1. IInv => PendingHasOwner
  BY DEF IInv
<1>2. QED
  BY InitIInv, StepIInv, <1>1, PTL DEF Spec

(* What the refreshes load is never replaced by an older answer.           *)
THEOREM ShownNeverOlder == Spec => NeverOlder
<1>1. IInv /\ [Next]_vars =>
        [dashboardData # None => dashboardData' >= dashboardData]_vars
  <2> SUFFICES ASSUME IInv, Next, dashboardData # None
               PROVE  dashboardData' >= dashboardData
    BY DEF NeverOlder
  <2>1. dashboardData \in Nat
    BY DEF IInv, NewestReadsLater
  <2>2. ASSUME NEW c \in Calls, Show(c)
        PROVE  dashboardData' >= dashboardData
    BY <2>1, <2>2 DEF Show, IInv, NewestReadsLater
  <2>3. UNCHANGED dashboardData \/ \E c \in Calls : Show(c)
    BY CallNames
       DEF Next, UserActs, PassAnswered, InitAnswered, RunAnswered, CallerAnswered,
           RetryAnswered, AppResumed, RunBegins, MoreBegins, InitializeAgain,
           RetryBegins, clearError, clearNotice, SearchBegins, SearchShows, ListFails,
           PassGenerates, PassFails, PassShows, InitOpens, InitGenerates, InitShows,
           InitFails, RunFails, RunCommits, RunShows, RunNotRefreshed, RunCommitsOnly,
           CallerRefreshes, CallerShows, WrittenElsewhere, RetryShows, RetryFails, MoreShows
  <2>4. QED
    BY <2>1, <2>2, <2>3
<1>2. QED
  BY InitIInv, StepIInv, <1>1, PTL DEF Spec, NeverOlder

--------------------------------------------------------------------------------
(* Newest first.  A transaction's place is how many newer ones there are.  *)

Newer(tx, S) == {other \in S : other > tx}
Place(tx, S) == Cardinality(Newer(tx, S))

LEMMA TransactionsAreFinite ==
  ASSUME NEW S \in SUBSET Txs
  PROVE  S \subseteq Nat /\ IsFiniteSet(S) /\ Cardinality(S) \in Nat
<1>1. Txs \subseteq Nat /\ IsFiniteSet(Txs)
  BY ControllerAssumption
<1>2. IsFiniteSet(S)
  BY <1>1, FS_Subset
<1>3. QED
  BY <1>1, <1>2, FS_CardinalityType

(* Places tell the transactions of a set apart, and none is left free.     *)
LEMMA PlacesDiffer ==
  ASSUME NEW S \in SUBSET Txs, NEW a \in S, NEW b \in S, a < b
  PROVE  Place(b, S) < Place(a, S)
<1>1. Newer(b, S) \in SUBSET Newer(a, S) /\ Newer(b, S) # Newer(a, S)
  BY TransactionsAreFinite DEF Newer
<1>2. Newer(a, S) \in SUBSET Txs /\ Newer(b, S) \in SUBSET Txs
  BY DEF Newer
<1>3. /\ IsFiniteSet(Newer(a, S))
      /\ Cardinality(Newer(a, S)) \in Nat /\ Cardinality(Newer(b, S)) \in Nat
  BY <1>2, TransactionsAreFinite
<1>4. /\ Cardinality(Newer(b, S)) <= Cardinality(Newer(a, S))
      /\ Cardinality(Newer(b, S)) # Cardinality(Newer(a, S))
  BY <1>1, <1>3, FS_Subset
<1>5. QED
  BY <1>3, <1>4 DEF Place

LEMMA PlaceRange ==
  ASSUME NEW S \in SUBSET Txs, NEW tx \in S
  PROVE  Place(tx, S) \in 0 .. Cardinality(S) - 1
<1>1. Newer(tx, S) \in SUBSET (S \ {tx}) /\ S \ {tx} \in SUBSET Txs
      /\ Newer(tx, S) \in SUBSET Txs
  BY TransactionsAreFinite DEF Newer
<1>2. IsFiniteSet(S \ {tx}) /\ Cardinality(S \ {tx}) = Cardinality(S) - 1
  BY TransactionsAreFinite, FS_RemoveElement
<1>3. Cardinality(Newer(tx, S)) <= Cardinality(S \ {tx})
  BY <1>1, <1>2, FS_Subset
<1>4. QED
  BY <1>1, <1>2, <1>3, TransactionsAreFinite DEF Place

LEMMA PlacesTaken ==
  ASSUME NEW S \in SUBSET Txs, NEW i \in 1 .. Cardinality(S)
  PROVE  /\ \E tx \in S : Place(tx, S) = i - 1
         /\ \A a, b \in S : Place(a, S) = Place(b, S) => a = b
<1> DEFINE n == Cardinality(S)
           f == [tx \in S |-> Place(tx, S) + 1]
<1>1. n \in Nat /\ IsFiniteSet(S) /\ S \subseteq Nat
  BY TransactionsAreFinite
<1>2. \A tx \in S : Place(tx, S) \in Int /\ Place(tx, S) + 1 \in 1 .. n
  BY <1>1, PlaceRange
<1>3. \A a, b \in S : Place(a, S) = Place(b, S) => a = b
  <2>1. SUFFICES ASSUME NEW a \in S, NEW b \in S, Place(a, S) = Place(b, S), a # b
                 PROVE  FALSE
    OBVIOUS
  <2>2. a < b \/ b < a
    BY <1>1, <2>1
  <2>3. QED
    BY <1>2, <2>1, <2>2, PlacesDiffer
<1>4. f \in Injection(S, 1 .. n)
  BY <1>2, <1>3 DEF Injection, IsInjective
<1>5. IsFiniteSet(1 .. n) /\ Cardinality(1 .. n) = n
  BY <1>1, FS_Interval
<1>6. f \in Surjection(S, 1 .. n)
  BY <1>4, <1>5, FS_Injection
<1>7. PICK tx \in S : f[tx] = i
  BY <1>6 DEF Surjection
<1>8. QED
  BY <1>2, <1>3, <1>7

LEMMA NewestFirstAt ==
  ASSUME NEW S \in SUBSET Txs, NEW i \in 1 .. Cardinality(S)
  PROVE  NewestFirst(S)[i] \in S /\ Place(NewestFirst(S)[i], S) = i - 1
<1> DEFINE tx == CHOOSE x \in S : Place(x, S) = i - 1
<1>1. NewestFirst(S)[i] = tx
  BY DEF NewestFirst, Place, Newer
<1>2. tx \in S /\ Place(tx, S) = i - 1
  BY PlacesTaken
<1>3. QED
  BY <1>1, <1>2

(* Newest first lists a set: all of it, each once.                         *)
LEMMA NewestFirstLists ==
  ASSUME NEW S \in SUBSET Txs
  PROVE  /\ NewestFirst(S) \in [1 .. Cardinality(S) -> S]
         /\ NewestFirst(S) \in Seq(S) /\ Len(NewestFirst(S)) = Cardinality(S)
         /\ IsInjective(NewestFirst(S))
         /\ ToSet(NewestFirst(S)) = S
<1> DEFINE n == Cardinality(S)
           f == NewestFirst(S)
<1>1. n \in Nat
  BY TransactionsAreFinite
<1>2. DOMAIN f = 1 .. n /\ f = [i \in 1 .. n |-> f[i]]
  BY DEF NewestFirst
<1>3. \A i \in 1 .. n : f[i] \in S /\ Place(f[i], S) = i - 1
  BY NewestFirstAt
<1> HIDE DEF f
<1>4. f \in [1 .. n -> S]
  BY <1>2, <1>3
<1>5. f \in Seq(S) /\ Len(f) = n
  BY <1>1, <1>4
<1>6. IsInjective(f)
  BY <1>2, <1>3 DEF IsInjective
<1>7. ASSUME NEW tx \in S
      PROVE  tx \in ToSet(f)
  <2>1. Place(tx, S) \in 0 .. n - 1
    BY PlaceRange
  <2> DEFINE i == Place(tx, S) + 1
  <2>2. i \in 1 .. n /\ i - 1 = Place(tx, S)
    BY <1>1, <2>1
  <2> HIDE DEF i
  <2>3. f[i] \in S /\ Place(f[i], S) = Place(tx, S)
    BY <1>3, <2>2
  <2>4. f[i] = tx
    BY <2>2, <2>3, PlacesTaken
  <2>5. QED
    BY <1>2, <2>2, <2>4 DEF ToSet
<1>8. ToSet(f) \subseteq S
  BY <1>2, <1>3 DEF ToSet
<1>9. QED
  BY <1>4, <1>5, <1>6, <1>7, <1>8 DEF f

LEMMA NewestFirstFalls ==
  ASSUME NEW S \in SUBSET Txs,
         NEW i \in 1 .. Cardinality(S), NEW j \in 1 .. Cardinality(S), i < j
  PROVE  NewestFirst(S)[i] > NewestFirst(S)[j]
<1> DEFINE a == NewestFirst(S)[i]
           b == NewestFirst(S)[j]
<1>1. a \in S /\ Place(a, S) = i - 1 /\ b \in S /\ Place(b, S) = j - 1
  BY NewestFirstAt
<1> HIDE DEF a, b
<1>2. a \in Nat /\ b \in Nat
  BY <1>1, TransactionsAreFinite
<1>3. a # b /\ ~(a < b)
  BY <1>1, PlacesDiffer
<1>4. QED
  BY <1>2, <1>3 DEF a, b

(* A stretch of such a list is the list of what is in it.                  *)
LEMMA StretchIsNewestFirst ==
  ASSUME NEW S \in SUBSET Txs, NEW from \in Nat, NEW to \in Nat,
         from <= to, to <= Cardinality(S)
  PROVE  LET f == NewestFirst(S)
             T == {f[k] : k \in from + 1 .. to}
         IN  /\ Cardinality(T) = to - from /\ T \in SUBSET S
             /\ \A k \in 1 .. to - from : NewestFirst(T)[k] = f[from + k]
<1> DEFINE f == NewestFirst(S)
           n == Cardinality(S)
           T == {f[k] : k \in from + 1 .. to}
<1>1. n \in Nat /\ S \subseteq Nat
  BY TransactionsAreFinite
<1>2. f \in [1 .. n -> S] /\ IsInjective(f)
  BY NewestFirstLists
<1>3. \A i, j \in 1 .. n : i < j => f[i] > f[j]
  BY NewestFirstFalls
<1> HIDE DEF f, n
<1>n. to <= n
  BY DEF n
<1>4. ASSUME NEW a \in Nat, NEW b \in Nat, a <= b, b <= n
      PROVE  Cardinality({f[k] : k \in a + 1 .. b}) = b - a
  <2> DEFINE U == {f[k] : k \in a + 1 .. b}
             g == [k \in a + 1 .. b |-> f[k]]
  <2>1. a + 1 .. b \subseteq 1 .. n
    BY <1>1, <1>4
  <2>2. g \in Bijection(a + 1 .. b, U)
    BY <1>2, <2>1 DEF Bijection, Injection, Surjection, IsInjective
  <2>3. IsFiniteSet(a + 1 .. b) /\ Cardinality(a + 1 .. b) = b - a
    <3>1. IsFiniteSet(a + 1 .. b)
          /\ Cardinality(a + 1 .. b) = IF a + 1 > b THEN 0 ELSE b - (a + 1) + 1
      BY FS_Interval
    <3>2. QED
      BY <1>4, <3>1
  <2>4. ExistsBijection(a + 1 .. b, U)
    BY <2>2 DEF ExistsBijection
  <2>5. QED
    BY <2>3, <2>4, FS_Bijection
<1>5. T \in SUBSET S
  BY <1>1, <1>2, <1>n
<1>6. Cardinality(T) = to - from
  BY <1>4, <1>n
<1>7. ASSUME NEW k \in 1 .. to - from
      PROVE  NewestFirst(T)[k] = f[from + k]
  <2>1. from + k \in 1 .. n /\ from + k \in from + 1 .. to /\ k - 1 \in Nat
    BY <1>1, <1>n
  <2>2. f[from + k] \in T
    BY <2>1
  <2>3. Newer(f[from + k], T) = {f[j] : j \in from + 1 .. from + k - 1}
    <3>1. ASSUME NEW j \in from + 1 .. to
          PROVE  f[j] > f[from + k] <=> j < from + k
      <4>1. j \in 1 .. n
        BY <1>1, <1>n
      <4>2. f[j] \in Nat /\ f[from + k] \in Nat
        BY <1>1, <1>2, <2>1, <4>1
      <4>3. CASE j < from + k
        BY <1>3, <2>1, <4>1, <4>3
      <4>4. CASE j = from + k
        BY <4>2, <4>4
      <4>5. CASE j > from + k
        BY <1>3, <2>1, <4>1, <4>2, <4>5
      <4>6. QED
        BY <2>1, <4>1, <4>3, <4>4, <4>5
    <3>2. \A j \in from + 1 .. from + k - 1 : j \in from + 1 .. to /\ j < from + k
      BY <2>1
    <3>3. \A j \in from + 1 .. to : j < from + k => j \in from + 1 .. from + k - 1
      BY <2>1
    <3>4. QED
      BY <3>1, <3>2, <3>3 DEF Newer
  <2>4. Place(f[from + k], T) = k - 1
    <3> DEFINE last == from + k - 1
    <3>1. last \in Nat /\ from <= last /\ last <= n /\ last - from = k - 1
      BY <2>1, <1>1
    <3> HIDE DEF last
    <3>2. Cardinality({f[j] : j \in from + 1 .. last}) = last - from
      BY <1>4, <3>1
    <3>3. QED
      BY <2>3, <3>1, <3>2 DEF Place, last
  <2>5. k \in 1 .. Cardinality(T) /\ T \in SUBSET Txs
    BY <1>5, <1>6
  <2>6. NewestFirst(T)[k] \in T /\ Place(NewestFirst(T)[k], T) = k - 1
    BY <2>5, NewestFirstAt
  <2>7. QED
    BY <2>2, <2>4, <2>5, <2>6, PlacesTaken
<1>8. QED
  BY <1>5, <1>6, <1>7 DEF f

--------------------------------------------------------------------------------
(* The timeline.  The newest list was read as it was asked for, and is the *)
(* only one, a page asked for during another list apart.                   *)

AsAsked(c) ==
  \E rows \in SUBSET Txs :
    /\ calls[c].page = listTransactions(rows, calls[c].query, calls[c].offset)
    /\ commits = 0 => rows = db

ListsAreAsked ==
  \A c \in Calls : calls[c].newestList =>
    /\ calls[c].at = "list" /\ calls[c].query \in Queries
    /\ calls[c].offset \in Nat /\ (c # "more" => calls[c].offset = 0)
    /\ AsAsked(c)

OneNewestList ==
  /\ \A c, d \in Calls \ {"more"} : calls[c].newestList /\ calls[d].newestList => c = d
  /\ \A c \in Refreshers : calls[c].newestList => calls[c].query = transactionQuery
  /\ calls["more"].newestList /\ ~calls["more"].during =>
       /\ \A c \in Calls \ {"more"} : ~calls[c].newestList
       /\ calls["more"].query = transactionQuery
       /\ calls["more"].offset = loadedTransactionCount

(* Before anything is shown nobody searches, so the newest refresh brings  *)
(* the timeline too.                                                       *)
FirstRefresh ==
  \A c \in Calls : calls[c].newest =>
    calls[c].at = "list" /\ (dashboardData = None => calls[c].newestList)

InitFlag == UnderWay(calls, "init") => initializing

RowsTyped ==
  /\ db \in SUBSET Txs
  /\ transactions \in Seq(Txs) /\ IsInjective(transactions)
  /\ loadedTransactionCount \in Nat /\ transactionQuery \in Queries

Asked == ListsAreAsked /\ OneNewestList /\ FirstRefresh /\ InitFlag
ListInv == Asked /\ RowsTyped /\ TimelineMatchesQuery

(* What a query returns: a stretch of its rows, newest first, with one row *)
(* more than a page has if there are others.                               *)
LEMMA QueryRows ==
  ASSUME NEW rows \in SUBSET Txs, NEW query \in Queries
  PROVE  rows \intersect Matches[query] \in SUBSET Txs
BY ControllerAssumption

LEMMA PageIsStretch ==
  ASSUME NEW rows \in SUBSET Txs, NEW query \in Queries, NEW offset \in Nat
  PROVE  LET S == rows \intersect Matches[query]
             n == Cardinality(S)
             page == listTransactions(rows, query, offset)
             last == IF n < offset + PageSize THEN n ELSE offset + PageSize
         IN  /\ FirstOf(page) \in Seq(S)
             /\ offset <= n =>
                  /\ offset <= last /\ last <= n /\ Len(FirstOf(page)) = last - offset
                  /\ \A k \in 1 .. last - offset :
                       FirstOf(page)[k] = NewestFirst(S)[offset + k]
                  /\ Len(page) > PageSize <=> last < n
<1> DEFINE S == rows \intersect Matches[query]
           n == Cardinality(S)
           f == NewestFirst(S)
           page == listTransactions(rows, query, offset)
           end == IF n < offset + PageSize + 1 THEN n ELSE offset + PageSize + 1
           last == IF n < offset + PageSize THEN n ELSE offset + PageSize
           cut == IF Len(page) < PageSize THEN Len(page) ELSE PageSize
<1>1. S \in SUBSET Txs /\ PageSize \in Nat
  BY QueryRows, ControllerAssumption
<1>2. n \in Nat /\ f \in [1 .. n -> S] /\ Len(f) = n
  BY <1>1, TransactionsAreFinite, NewestFirstLists
<1>3. page = SubSeq(f, offset + 1, end)
  BY <1>2 DEF listTransactions
<1>4. FirstOf(page) = SubSeq(page, 1, cut)
  BY DEF FirstOf
<1> HIDE DEF S, n, f, page
<1>5. end \in Nat /\ end <= n /\ last \in Nat
  BY <1>1, <1>2
<1>6. /\ page \in Seq(S)
      /\ Len(page) = IF offset + 1 <= end THEN end - (offset + 1) + 1 ELSE 0
      /\ \A k \in 1 .. end - (offset + 1) + 1 : page[k] = f[offset + 1 + k - 1]
  <2>1. \A k \in offset + 1 .. end : f[k] \in S
    BY <1>2, <1>5
  <2>2. offset + 1 \in Int /\ end \in Int
    BY <1>5
  <2> HIDE DEF end
  <2>3. QED
    BY <1>3, <2>1, <2>2, SubSeqProperties
<1>7. Len(page) \in Nat /\ cut \in Nat /\ cut <= Len(page)
  BY <1>1, <1>6
<1>8. /\ FirstOf(page) \in Seq(S)
      /\ Len(FirstOf(page)) = cut
      /\ \A k \in 1 .. cut : FirstOf(page)[k] = page[k]
  <2>1. \A k \in 1 .. cut : page[k] \in S
    BY <1>6, <1>7
  <2> HIDE DEF cut
  <2>2. /\ SubSeq(page, 1, cut) \in Seq(S)
        /\ Len(SubSeq(page, 1, cut)) = IF 1 <= cut THEN cut - 1 + 1 ELSE 0
        /\ \A k \in 1 .. cut - 1 + 1 : SubSeq(page, 1, cut)[k] = page[1 + k - 1]
    BY <1>7, <2>1, SubSeqProperties
  <2>3. QED
    BY <1>4, <1>7, <2>2
<1>9. ASSUME offset <= n
      PROVE  /\ offset <= last /\ last <= n /\ cut = last - offset
             /\ \A k \in 1 .. last - offset : FirstOf(page)[k] = f[offset + k]
             /\ Len(page) > PageSize <=> last < n
  <2>1. offset <= last /\ last <= n
    BY <1>1, <1>2, <1>9
  <2>2. Len(page) = end - offset
    BY <1>1, <1>2, <1>5, <1>6, <1>9
  <2>3. cut = last - offset
    BY <1>1, <1>2, <1>9, <2>2
  <2>4. Len(page) > PageSize <=> last < n
    BY <1>1, <1>2, <1>9, <2>2
  <2>5. \A k \in 1 .. last - offset : FirstOf(page)[k] = f[offset + k]
    <3>1. SUFFICES ASSUME NEW k \in 1 .. last - offset
                   PROVE  FirstOf(page)[k] = f[offset + k]
      OBVIOUS
    <3>2. k \in 1 .. cut /\ k \in 1 .. end - (offset + 1) + 1 /\ offset + 1 + k - 1 = offset + k
      BY <1>1, <1>2, <1>5, <1>9, <2>1, <2>3
    <3> HIDE DEF cut, end, last
    <3>3. FirstOf(page)[k] = page[k] /\ page[k] = f[offset + 1 + k - 1]
      BY <1>6, <1>8, <3>2
    <3>4. QED
      BY <3>2, <3>3
  <2>6. QED
    BY <2>1, <2>3, <2>4, <2>5
<1> HIDE DEF end, last, cut
<1>10. /\ FirstOf(page) \in Seq(S)
       /\ offset <= n =>
            /\ offset <= last /\ last <= n /\ Len(FirstOf(page)) = last - offset
            /\ \A k \in 1 .. last - offset : FirstOf(page)[k] = f[offset + k]
            /\ Len(page) > PageSize <=> last < n
  BY <1>8, <1>9
<1>11. QED
  BY <1>10 DEF S, n, f, page, last

(* The first page of a query matches it.                                   *)
LEMMA FirstPageMatches ==
  ASSUME NEW rows \in SUBSET Txs, NEW query \in Queries
  PROVE  LET page == FirstOf(listTransactions(rows, query, 0))
             found == NewestFirst(rows \intersect Matches[query])
         IN  /\ page \in Seq(Txs) /\ IsInjective(page) /\ Len(page) \in Nat
             /\ ToSet(page) \subseteq Matches[query]
             /\ IsPrefix(page, found)
             /\ Len(listTransactions(rows, query, 0)) > PageSize <=> Len(page) < Len(found)
<1> DEFINE S == rows \intersect Matches[query]
           n == Cardinality(S)
           found == NewestFirst(S)
           all == listTransactions(rows, query, 0)
           page == FirstOf(all)
           last == IF n < 0 + PageSize THEN n ELSE 0 + PageSize
<1>1. S \in SUBSET Txs
  BY QueryRows
<1>2. n \in Nat /\ found \in [1 .. n -> S] /\ Len(found) = n /\ IsInjective(found)
  BY <1>1, TransactionsAreFinite, NewestFirstLists
<1>n. 0 \in Nat /\ 0 <= n
  BY <1>2
<1>3. /\ page \in Seq(S) /\ 0 <= last /\ last <= n /\ Len(page) = last - 0
      /\ \A k \in 1 .. last - 0 : page[k] = found[0 + k]
      /\ Len(all) > PageSize <=> last < n
  BY <1>n, PageIsStretch
<1> HIDE DEF n, found, all, page, last
<1>4. last \in Nat
  BY <1>2, ControllerAssumption DEF last
<1>5. Len(page) = last /\ \A k \in 1 .. last : page[k] = found[k]
  BY <1>3, <1>4
<1>6. page \in Seq(Txs) /\ ToSet(page) \subseteq S /\ DOMAIN page = 1 .. last
  <2>1. page \in [1 .. Len(page) -> S]
    BY <1>3
  <2>2. page \in Seq(Txs)
    BY <1>1, <1>3, SeqMonotonic
  <2>3. QED
    BY <1>5, <2>1, <2>2 DEF ToSet
<1>7. IsInjective(page)
  BY <1>2, <1>3, <1>4, <1>5, <1>6 DEF IsInjective
<1>8. IsPrefix(page, found)
  <2>1. SubSeq(page, 1, Len(page)) = page
    BY <1>6, SubSeqFull
  <2>2. /\ SubSeq(found, 1, last) \in Seq(S)
        /\ Len(SubSeq(found, 1, last)) = IF 1 <= last THEN last - 1 + 1 ELSE 0
        /\ \A k \in 1 .. last - 1 + 1 : SubSeq(found, 1, last)[k] = found[1 + k - 1]
    <3>1. \A k \in 1 .. last : found[k] \in S
      BY <1>2, <1>3, <1>4
    <3>2. QED
      BY <1>4, <3>1, SubSeqProperties
  <2>3. Len(SubSeq(found, 1, last)) = last
        /\ \A k \in 1 .. last : SubSeq(found, 1, last)[k] = found[k]
    BY <1>4, <2>2
  <2> DEFINE g == SubSeq(found, 1, last)
  <2>4. g \in Seq(S) /\ Len(g) = last /\ \A k \in 1 .. last : g[k] = found[k]
    BY <2>2, <2>3
  <2> HIDE DEF g
  <2>5. page = g
    BY <1>3, <1>5, <2>4, SeqEqual
  <2>6. QED
    BY <1>2, <1>3, <1>5, <2>1, <2>5 DEF IsPrefix, g
<1>9. QED
  BY <1>2, <1>3, <1>4, <1>5, <1>6, <1>7, <1>8 DEF found, all, page

--------------------------------------------------------------------------------
(* What the two ways of showing rows leave on the screen.                  *)

(* The answer to a first page, of what was read when it was asked for.     *)
LEMMA FirstPageShown ==
  ASSUME NEW rows \in SUBSET Txs, transactionQuery' \in Queries, db' \in SUBSET Txs,
         ShowFirstPage(listTransactions(rows, transactionQuery', 0)),
         commits' = 0 => rows = db'
  PROVE  RowsTyped' /\ TimelineMatchesQuery'
<1> DEFINE all == listTransactions(rows, transactionQuery', 0)
           page == FirstOf(all)
           found == NewestFirst(rows \intersect Matches[transactionQuery'])
<1>1. /\ page \in Seq(Txs) /\ IsInjective(page) /\ Len(page) \in Nat
      /\ ToSet(page) \subseteq Matches[transactionQuery']
      /\ IsPrefix(page, found)
      /\ Len(all) > PageSize <=> Len(page) < Len(found)
  BY FirstPageMatches
<1>2. /\ hasMoreTransactions' = (Len(all) > PageSize)
      /\ transactions' = page /\ loadedTransactionCount' = Len(page)
  BY DEF ShowFirstPage
<1> HIDE DEF all, page
<1>3. RowsTyped'
  BY <1>1, <1>2 DEF RowsTyped
<1>4. commits' = 0 => found = NewestFirst(db' \intersect Matches[transactionQuery'])
  OBVIOUS
<1> HIDE DEF found
<1>5. TimelineMatchesQuery'
  BY <1>1, <1>2, <1>4 DEF TimelineMatchesQuery
<1>6. QED
  BY <1>3, <1>5

(* Rows that are not shown yet, put behind those that are.                 *)
LEMMA UnseenAreNew ==
  ASSUME NEW page, FirstOf(page) \in Seq(Txs), transactions \in Seq(Txs),
         IsInjective(transactions)
  PROVE  LET longer == transactions \o Unseen(page)
         IN  /\ longer \in Seq(Txs) /\ IsInjective(longer)
             /\ ToSet(longer) \subseteq ToSet(transactions) \union ToSet(FirstOf(page))
<1> DEFINE D == ToSet(FirstOf(page)) \ ToSet(transactions)
           new == NewestFirst(D)
           longer == transactions \o new
<1>1. D \in SUBSET Txs
  BY DEF ToSet
<1>2. new \in Seq(D) /\ IsInjective(new) /\ ToSet(new) = D
  BY <1>1, NewestFirstLists
<1> HIDE DEF new
<1>3. new \in Seq(Txs)
  BY <1>1, <1>2, SeqMonotonic
<1>4. /\ longer \in Seq(Txs)
      /\ Len(longer) = Len(transactions) + Len(new)
      /\ \A i \in 1 .. Len(transactions) + Len(new) :
           longer[i] = IF i <= Len(transactions) THEN transactions[i]
                       ELSE new[i - Len(transactions)]
  BY <1>3, ConcatProperties
<1>5. /\ DOMAIN transactions = 1 .. Len(transactions) /\ Len(transactions) \in Nat
      /\ DOMAIN new = 1 .. Len(new) /\ Len(new) \in Nat
      /\ DOMAIN longer = 1 .. Len(transactions) + Len(new)
  BY <1>3, <1>4
<1> HIDE DEF longer
<1>6. ASSUME NEW i \in DOMAIN longer
      PROVE  \/ i \in DOMAIN transactions /\ longer[i] = transactions[i]
             \/ /\ i - Len(transactions) \in DOMAIN new
                /\ longer[i] = new[i - Len(transactions)]
                /\ i \notin DOMAIN transactions
  BY <1>4, <1>5
<1>7. ToSet(longer) \subseteq ToSet(transactions) \union ToSet(new)
  BY <1>6 DEF ToSet
<1>8. ToSet(new) \intersect ToSet(transactions) = {}
  BY <1>2
<1>9. IsInjective(longer)
  <2>1. SUFFICES ASSUME NEW i \in DOMAIN longer, NEW j \in DOMAIN longer,
                        longer[i] = longer[j]
                 PROVE  i = j
    BY DEF IsInjective
  <2>2. i \in Int /\ j \in Int
    BY <1>5
  <2>3. CASE i \in DOMAIN transactions /\ j \in DOMAIN transactions
    <3>1. longer[i] = transactions[i] /\ longer[j] = transactions[j]
      BY <1>6, <2>3
    <3>2. QED
      BY <2>1, <2>3, <3>1 DEF IsInjective
  <2>4. CASE i \notin DOMAIN transactions /\ j \notin DOMAIN transactions
    <3> DEFINE a == i - Len(transactions)
               b == j - Len(transactions)
    <3>1. a \in DOMAIN new /\ b \in DOMAIN new /\ new[a] = new[b]
      BY <1>6, <2>1, <2>4
    <3> HIDE DEF a, b
    <3>2. a = b
      BY <1>2, <3>1 DEF IsInjective
    <3>3. QED
      BY <1>5, <2>2, <3>2 DEF a, b
  <2>5. ASSUME NEW k \in DOMAIN longer, k \in DOMAIN transactions
        PROVE  longer[k] \in ToSet(transactions)
    BY <1>6, <2>5 DEF ToSet
  <2>6. ASSUME NEW k \in DOMAIN longer, k \notin DOMAIN transactions
        PROVE  longer[k] \in ToSet(new)
    BY <1>6, <2>6 DEF ToSet
  <2>7. QED
    BY <1>8, <2>1, <2>3, <2>4, <2>5, <2>6
<1>10. QED
  BY <1>2, <1>4, <1>7, <1>9 DEF Unseen, longer, new

(* While nothing is committed the next page goes on where the rows end.    *)
LEMMA NextPageGoesOn ==
  ASSUME RowsTyped, loadedTransactionCount = Len(transactions),
         IsPrefix(transactions, NewestFirst(db \intersect Matches[transactionQuery]))
  PROVE  LET found == NewestFirst(db \intersect Matches[transactionQuery])
             page == listTransactions(db, transactionQuery, loadedTransactionCount)
             longer == transactions \o Unseen(page)
         IN  /\ IsPrefix(longer, found)
             /\ loadedTransactionCount + Len(FirstOf(page)) = Len(longer)
             /\ Len(page) > PageSize <=> Len(longer) < Len(found)
<1> DEFINE S == db \intersect Matches[transactionQuery]
           n == Cardinality(S)
           found == NewestFirst(S)
           from == loadedTransactionCount
           page == listTransactions(db, transactionQuery, from)
           first == FirstOf(page)
           last == IF n < from + PageSize THEN n ELSE from + PageSize
           T == {found[k] : k \in from + 1 .. last}
           new == NewestFirst(T)
           longer == transactions \o new
<1>1. S \in SUBSET Txs /\ from \in Nat
  BY QueryRows DEF RowsTyped
<1>2. n \in Nat /\ found \in [1 .. n -> S] /\ found \in Seq(S) /\ Len(found) = n
      /\ IsInjective(found)
  BY <1>1, TransactionsAreFinite, NewestFirstLists
<1>3. from <= n /\ SubSeq(transactions, 1, from) = SubSeq(found, 1, from)
  BY <1>2 DEF IsPrefix
<1>4. /\ from <= last /\ last <= n /\ Len(first) = last - from /\ first \in Seq(S)
      /\ \A k \in 1 .. last - from : first[k] = found[from + k]
      /\ Len(page) > PageSize <=> last < n
  BY <1>1, <1>3, PageIsStretch DEF RowsTyped
<1>5. last \in Nat
  BY <1>1, <1>2, ControllerAssumption
<1>6. /\ Cardinality(T) = last - from /\ T \in SUBSET S
      /\ \A k \in 1 .. last - from : new[k] = found[from + k]
  BY <1>1, <1>4, <1>5, StretchIsNewestFirst
<1>7. T \in SUBSET Txs
  BY <1>1, <1>6
<1>8. new \in Seq(T) /\ Len(new) = last - from
  BY <1>6, <1>7, NewestFirstLists
<1> HIDE DEF n, found, page, first, last, new
<1>9. \A k \in 1 .. from : transactions[k] = found[k]
  <2>1. transactions \in Seq(Txs) /\ Len(transactions) = from
    BY DEF RowsTyped
  <2>2. SubSeq(transactions, 1, from) = transactions
    BY <2>1, SubSeqFull
  <2>3. \A k \in 1 .. from - 1 + 1 : SubSeq(found, 1, from)[k] = found[1 + k - 1]
    <3>1. \A k \in 1 .. from : found[k] \in S
      BY <1>1, <1>2, <1>3
    <3>2. QED
      BY <1>1, <3>1, SubSeqProperties
  <2>4. QED
    BY <1>1, <1>3, <2>2, <2>3
<1>10. ToSet(transactions) = {found[k] : k \in 1 .. from}
  BY <1>9 DEF RowsTyped, ToSet
<1>11. ToSet(first) = T
  <2>1. DOMAIN first = 1 .. last - from
    BY <1>4
  <2>2. \A k \in 1 .. last - from : from + k \in from + 1 .. last
    BY <1>1, <1>5
  <2>3. ToSet(first) \subseteq T
    BY <1>4, <2>1, <2>2 DEF ToSet
  <2>4. ASSUME NEW j \in from + 1 .. last
        PROVE  found[j] \in ToSet(first)
    <3>1. j - from \in 1 .. last - from /\ from + (j - from) = j
      BY <1>1, <1>5
    <3>2. first[j - from] = found[from + (j - from)]
      BY <1>4, <3>1
    <3>3. QED
      BY <2>1, <3>1, <3>2 DEF ToSet
  <2>5. QED
    BY <2>3, <2>4
<1>12. ToSet(first) \ ToSet(transactions) = T
  <2>1. SUFFICES ASSUME NEW i \in 1 .. from, NEW j \in from + 1 .. last
                 PROVE  found[i] # found[j]
    BY <1>10, <1>11
  <2>2. i \in 1 .. n /\ j \in 1 .. n /\ i # j
    BY <1>1, <1>2, <1>3, <1>4, <1>5
  <2>3. QED
    BY <1>2, <2>2 DEF IsInjective
<1>13. Unseen(page) = new
  BY <1>12 DEF Unseen, new, first
<1>14. longer \in Seq(Txs) /\ Len(longer) = last
       /\ \A k \in 1 .. last : longer[k] = found[k]
  <2>1. new \in Seq(Txs) /\ transactions \in Seq(Txs)
    BY <1>7, <1>8, SeqMonotonic DEF RowsTyped
  <2>2. /\ longer \in Seq(Txs)
        /\ Len(longer) = Len(transactions) + Len(new)
        /\ \A k \in 1 .. Len(transactions) + Len(new) :
             longer[k] = IF k <= Len(transactions) THEN transactions[k]
                         ELSE new[k - Len(transactions)]
    BY <2>1, ConcatProperties
  <2>3. Len(transactions) + Len(new) = last
    BY <1>1, <1>5, <1>8
  <2> HIDE DEF longer
  <2>4. ASSUME NEW k \in 1 .. last
        PROVE  longer[k] = found[k]
    <3>1. CASE k <= from
      <4>1. k \in 1 .. from /\ longer[k] = transactions[k]
        BY <1>1, <1>5, <2>2, <2>3, <3>1
      <4>2. QED
        BY <1>9, <4>1
    <3>2. CASE ~(k <= from)
      <4>1. k - from \in 1 .. last - from /\ from + (k - from) = k
        BY <1>1, <1>5, <3>2
      <4>2. longer[k] = new[k - from]
        BY <2>2, <2>3, <3>2
      <4>3. QED
        BY <1>6, <4>1, <4>2 DEF new
    <3>3. QED
      BY <3>1, <3>2
  <2>5. QED
    BY <2>2, <2>3, <2>4
<1> HIDE DEF longer
<1>15. IsPrefix(longer, found)
  <2>1. SubSeq(longer, 1, Len(longer)) = longer
    BY <1>14, SubSeqFull
  <2>2. /\ SubSeq(found, 1, last) \in Seq(S)
        /\ Len(SubSeq(found, 1, last)) = IF 1 <= last THEN last - 1 + 1 ELSE 0
        /\ \A k \in 1 .. last - 1 + 1 : SubSeq(found, 1, last)[k] = found[1 + k - 1]
    <3>1. \A k \in 1 .. last : found[k] \in S
      BY <1>2, <1>4, <1>5
    <3>2. QED
      BY <1>5, <3>1, SubSeqProperties
  <2> DEFINE g == SubSeq(found, 1, last)
  <2>3. Len(g) = last /\ \A k \in 1 .. last : g[k] = found[k]
    BY <1>5, <2>2
  <2>4. g \in Seq(Txs)
    BY <1>1, <2>2, SeqMonotonic
  <2> HIDE DEF g
  <2>5. longer = g
    BY <1>14, <2>3, <2>4, SeqEqual
  <2>6. QED
    BY <1>2, <1>4, <1>14, <2>1, <2>5 DEF IsPrefix, g
<1>16. loadedTransactionCount + Len(first) = Len(longer)
       /\ (Len(page) > PageSize <=> Len(longer) < Len(found))
  BY <1>1, <1>2, <1>4, <1>5, <1>14
<1>17. QED
  BY <1>13, <1>15, <1>16 DEF longer, page, first, found

--------------------------------------------------------------------------------
(* What the steps do to the calls: some only end or wait for something     *)
(* else, others ask for a list.                                            *)

Fewer(f, g) == \A c \in Calls : f[c] = g[c] \/ (~f[c].newest /\ ~f[c].newestList)

Written == \/ UNCHANGED <<db, commits>>
           \/ db' \in SUBSET Txs /\ commits' = commits + 1

LEMMA CommitIsWritten == RowsTyped /\ Commit => Written
BY DEF Commit, RowsTyped, Written

LEMMA NoCallAsks == ~NoCall.newest /\ ~NoCall.newestList
BY DEF NoCall

LEMMA AskIsList ==
  ASSUME NEW query, NEW offset, NEW rows, NEW at
  PROVE  LET a == Ask(query, offset, rows, at)
         IN  /\ a.at = "list" /\ a.newestList /\ ~a.newest /\ ~a.during
             /\ a.query = query /\ a.offset = offset
             /\ a.page = listTransactions(rows, query, offset)
BY DEF Ask

LEMMA EndingIsFewer ==
  ASSUME Shaped(calls), NEW c \in Calls, calls' = [calls EXCEPT ![c] = NoCall]
  PROVE  Fewer(calls', calls) /\ ~UnderWay(calls', c)
         /\ \A d \in Calls \ {c} : calls'[d] = calls[d]
<1>1. calls'[c] = NoCall /\ \A d \in Calls \ {c} : calls'[d] = calls[d]
  BY DEF Shaped
<1>2. QED
  BY <1>1, NoCallAsks, NoCallShaped DEF Fewer, UnderWay

LEMMA WaitingIsFewer ==
  ASSUME Shaped(calls), ListInv, NEW c \in Calls, NEW at, calls[c].at # "list",
         calls' = [calls EXCEPT ![c].at = at]
  PROVE  Fewer(calls', calls) /\ \A d \in Calls \ {c} : calls'[d] = calls[d]
<1>1. /\ calls'[c].newest = calls[c].newest /\ calls'[c].newestList = calls[c].newestList
      /\ \A d \in Calls \ {c} : calls'[d] = calls[d]
  BY DEF Shaped, Fields
<1>2. ~calls[c].newest /\ ~calls[c].newestList
  BY DEF ListInv, Asked, ListsAreAsked, FirstRefresh
<1>3. QED
  BY <1>1, <1>2 DEF Fewer

LEMMA FinallyIsFewer ==
  ASSUME NEW rest, Shaped(rest), NEW c \in {"run", "resume"}, NEW b,
         calls' = Ended(c, rest, b)
  PROVE  Fewer(calls', rest) /\ ~calls'[c].newestList
         /\ \A d \in Calls \ {"run", "resume"} : calls'[d] = rest[d]
<1> DEFINE w == [NoCall EXCEPT !.at = "write"]
<1>1. "run" \in Calls /\ "resume" \in Calls
  BY CallNames
<1>2. ~w.newest /\ ~w.newestList
  BY DEF NoCall
<1>3. /\ calls'["resume"] = IF b THEN w ELSE IF c = "resume" THEN NoCall ELSE rest["resume"]
      /\ \A d \in Calls \ {"resume"} : calls'[d] = IF d = c THEN NoCall ELSE rest[d]
  BY <1>1 DEF Ended, Shaped
<1> HIDE DEF w
<1>4. QED
  BY <1>1, <1>2, <1>3, NoCallAsks DEF Fewer

--------------------------------------------------------------------------------
(* Steps that ask for nothing new.                                         *)
LEMMA FewerAsked ==
  ASSUME IInv, ListInv, Fewer(calls', calls), Written,
         UnderWay(calls', "init") => initializing',
         \/ dashboardData' = None => dashboardData = None
         \/ \A d \in Calls : ~calls'[d].newest,
         \/ UNCHANGED <<transactionQuery, loadedTransactionCount>>
         \/ \E c \in Calls \ {"more"} : calls[c].newestList /\ ~calls'[c].newestList
         \/ /\ calls["more"].newestList /\ ~calls'["more"].newestList
            /\ UNCHANGED transactionQuery
  PROVE  Asked'
<1>1. \A c \in Calls : calls'[c].newestList => calls[c].newestList /\ calls'[c] = calls[c]
  BY DEF Fewer
<1>2. \A c \in Calls : calls'[c].newest => calls[c].newest /\ calls'[c] = calls[c]
  BY DEF Fewer
<1>3. commits' = 0 => UNCHANGED <<db, commits>>
  BY DEF Written, IInv, NewestReadsLater
<1>4. ASSUME NEW c \in Calls, AsAsked(c), calls'[c] = calls[c]
      PROVE  AsAsked(c)'
  <2>1. PICK rows \in SUBSET Txs :
          /\ calls[c].page = listTransactions(rows, calls[c].query, calls[c].offset)
          /\ commits = 0 => rows = db
    BY <1>4 DEF AsAsked
  <2>2. commits' = 0 => rows = db'
    BY <1>3, <2>1
  <2>3. calls'[c].page = listTransactions(rows, calls'[c].query, calls'[c].offset)
    BY <1>4, <2>1
  <2>4. QED
    BY <2>2, <2>3 DEF AsAsked
<1>5. ListsAreAsked'
  BY <1>1, <1>4 DEF ListInv, Asked, ListsAreAsked
<1>6. OneNewestList'
  <2>1. "more" \in Calls /\ Refreshers \subseteq Calls \ {"more"}
    BY CallNames DEF Refreshers, Calls
  <2>2. CASE UNCHANGED <<transactionQuery, loadedTransactionCount>>
    BY <1>1, <2>1, <2>2 DEF ListInv, Asked, OneNewestList
  <2>3. CASE \E c \in Calls \ {"more"} : calls[c].newestList /\ ~calls'[c].newestList
    <3>1. PICK c \in Calls \ {"more"} : calls[c].newestList /\ ~calls'[c].newestList
      BY <2>3
    <3>2. \A d \in Calls \ {"more"} : ~calls'[d].newestList
      BY <1>1, <3>1 DEF ListInv, Asked, OneNewestList
    <3>3. ~(calls'["more"].newestList /\ ~calls'["more"].during)
      BY <1>1, <2>1, <3>1 DEF ListInv, Asked, OneNewestList
    <3>4. QED
      BY <2>1, <3>2, <3>3 DEF OneNewestList
  <2>4. CASE /\ calls["more"].newestList /\ ~calls'["more"].newestList
             /\ UNCHANGED transactionQuery
    BY <1>1, <2>1, <2>4 DEF ListInv, Asked, OneNewestList
  <2>5. QED
    BY <2>2, <2>3, <2>4
<1>7. FirstRefresh'
  BY <1>2 DEF ListInv, Asked, FirstRefresh
<1>8. InitFlag'
  BY DEF InitFlag
<1>9. QED
  BY <1>5, <1>6, <1>7, <1>8 DEF Asked

LEMMA RowsStay ==
  ASSUME IInv, ListInv, Written, UNCHANGED timeline,
         dashboardData' # None => dashboardData # None
  PROVE  RowsTyped' /\ TimelineMatchesQuery'
<1>1. commits' = 0 => UNCHANGED <<db, commits>>
  BY DEF Written, IInv, NewestReadsLater
<1>2. db' \in SUBSET Txs
  BY DEF Written, ListInv, RowsTyped
<1>3. RowsTyped'
  BY <1>2 DEF ListInv, RowsTyped, timeline
<1>4. TimelineMatchesQuery'
  BY <1>1 DEF ListInv, TimelineMatchesQuery, timeline
<1>5. QED
  BY <1>3, <1>4

(* A step that leaves what is shown alone.                                 *)
LEMMA NothingShown ==
  ASSUME IInv, ListInv, Fewer(calls', calls), Written, UNCHANGED <<timeline, dashboardData>>,
         UnderWay(calls', "init") => initializing'
  PROVE  ListInv'
<1>1. UNCHANGED <<transactionQuery, loadedTransactionCount>>
  BY DEF timeline
<1>2. Asked'
  BY <1>1, FewerAsked
<1>3. RowsTyped' /\ TimelineMatchesQuery'
  BY RowsStay
<1>4. QED
  BY <1>2, <1>3 DEF ListInv

(* The answer to a refresh.                                                *)
LEMMA RefreshShown ==
  ASSUME IInv, ListInv, NEW c \in Refreshers, Show(c), Fewer(calls', calls),
         ~calls'[c].newestList, ~calls'[c].newest, UNCHANGED <<db, commits>>,
         UnderWay(calls', "init") => initializing'
  PROVE  ListInv'
<1>1. c \in Calls \ {"more"} /\ Written
  BY CallNames DEF Refreshers, Calls, Written
<1>2. dashboardData' = IF calls[c].newest THEN calls[c].read ELSE dashboardData
  BY DEF Show
<1>3. calls[c].newest => \A d \in Calls : ~calls'[d].newest
  BY <1>1 DEF IInv, NewestReadsLater, Fewer
<1>4. CASE calls[c].newest /\ calls[c].newestList
  <2>1. ShowFirstPage(calls[c].page) /\ UNCHANGED transactionQuery
    BY <1>4 DEF Show
  <2>2. Asked'
    BY <1>1, <1>3, <1>4, FewerAsked
  <2>3. calls[c].query = transactionQuery /\ calls[c].offset = 0
    BY <1>1, <1>4 DEF ListInv, Asked, ListsAreAsked, OneNewestList
  <2>4. PICK rows \in SUBSET Txs :
          /\ calls[c].page = listTransactions(rows, calls[c].query, calls[c].offset)
          /\ commits = 0 => rows = db
    BY <1>1, <1>4 DEF ListInv, Asked, ListsAreAsked, AsAsked
  <2>5. /\ ShowFirstPage(listTransactions(rows, transactionQuery', 0))
        /\ commits' = 0 => rows = db'
        /\ transactionQuery' \in Queries /\ db' \in SUBSET Txs
    BY <2>1, <2>3, <2>4 DEF ListInv, RowsTyped
  <2>6. RowsTyped' /\ TimelineMatchesQuery'
    BY <2>5, FirstPageShown
  <2>7. QED
    BY <2>2, <2>6 DEF ListInv
<1>5. CASE ~(calls[c].newest /\ calls[c].newestList)
  <2>1. UNCHANGED timeline
    BY <1>5 DEF Show
  <2>2. UNCHANGED <<transactionQuery, loadedTransactionCount>>
    BY <2>1 DEF timeline
  <2>3. dashboardData' # None => dashboardData # None
    BY <1>1, <1>2, <1>5 DEF ListInv, Asked, FirstRefresh
  <2>4. Asked'
    BY <1>1, <1>2, <1>3, <2>2, FewerAsked
  <2>5. RowsTyped' /\ TimelineMatchesQuery'
    BY <1>1, <2>1, <2>3, RowsStay
  <2>6. QED
    BY <2>4, <2>5 DEF ListInv
<1>6. QED
  BY <1>4, <1>5

(* A refresh asks: nobody else has the newest list.                        *)
LEMMA RefreshAsked ==
  ASSUME IInv, ListInv, NEW c \in Refreshers, Written,
         calls' = Refreshing(c, db', commits'),
         UNCHANGED <<timeline, dashboardData, initializing>>,
         c = "init" => UnderWay(calls, "init")
  PROVE  ListInv'
<1> DEFINE a == Ask(transactionQuery, 0, db', commits')
           f == Refreshing(c, db', commits')
<1>1. c \in Calls \ {"more"} /\ "more" \in Calls /\ "init" \in Calls
      /\ Refreshers \subseteq Calls
  BY CallNames DEF Refreshers, Calls
<1>2. /\ a.at = "list" /\ a.newestList /\ a.query = transactionQuery /\ a.offset = 0
      /\ a.page = listTransactions(db', transactionQuery, 0) /\ DOMAIN a = Fields
  BY AskIsList, AskShaped
<1> HIDE DEF a
<1>3. f = [d \in Calls |->
             IF d = c THEN [a EXCEPT !.newest = TRUE]
             ELSE [calls[d] EXCEPT !.newest = FALSE, !.newestList = FALSE]]
  BY DEF Refreshing, a
<1>4. /\ f[c].at = "list" /\ f[c].newestList /\ f[c].query = transactionQuery
      /\ f[c].offset = 0 /\ f[c].page = listTransactions(db', transactionQuery, 0)
  <2> DEFINE g == [a EXCEPT !.newest = TRUE]
  <2>1. f[c] = g
    BY <1>1, <1>3
  <2>2. /\ g.at = a.at /\ g.newestList = a.newestList /\ g.query = a.query
        /\ g.offset = a.offset /\ g.page = a.page
    BY <1>2 DEF Fields
  <2> HIDE DEF f, g
  <2>3. QED
    BY <1>2, <2>1, <2>2
<1>5. \A d \in Calls \ {c} : ~f[d].newest /\ ~f[d].newestList /\ f[d].at = calls[d].at
  <2>1. SUFFICES ASSUME NEW d \in Calls \ {c}
                 PROVE  ~f[d].newest /\ ~f[d].newestList /\ f[d].at = calls[d].at
    OBVIOUS
  <2> DEFINE r == calls[d]
             g == [r EXCEPT !.newest = FALSE, !.newestList = FALSE]
  <2>2. f[d] = g /\ DOMAIN r = Fields
    BY <1>3 DEF IInv, Shaped
  <2> HIDE DEF r, f
  <2>3. DOMAIN r = Fields => ~g.newest /\ ~g.newestList /\ g.at = r.at
    BY DEF Fields
  <2>4. QED
    BY <2>2, <2>3 DEF r
<1>6. calls' = f
  OBVIOUS
<1> HIDE DEF f
<1>7. db' \in SUBSET Txs /\ transactionQuery' = transactionQuery
      /\ transactionQuery \in Queries
  BY DEF Written, ListInv, RowsTyped, timeline
<1>8. AsAsked(c)'
  BY <1>4, <1>6, <1>7 DEF AsAsked
<1>9. ListsAreAsked'
  BY <1>1, <1>4, <1>5, <1>6, <1>7, <1>8 DEF ListsAreAsked
<1>10. OneNewestList'
  BY <1>1, <1>4, <1>5, <1>6, <1>7 DEF OneNewestList
<1>11. FirstRefresh'
  BY <1>4, <1>5, <1>6 DEF FirstRefresh
<1>12. InitFlag'
  BY <1>1, <1>5, <1>6 DEF InitFlag, UnderWay, ListInv, Asked
<1>13. RowsTyped' /\ TimelineMatchesQuery'
  BY RowsStay
<1>14. QED
  BY <1>9, <1>10, <1>11, <1>12, <1>13 DEF ListInv, Asked

(* So does a search, which begins only when something is shown.            *)
LEMMA SearchAsks ==
  ASSUME IInv, ListInv, NEW s \in Searches, SearchBegins(s)
  PROVE  ListInv'
<1>1. PICK query \in Queries :
        calls' = [c \in Calls |-> IF c = s THEN Ask(query, 0, db, commits)
                                  ELSE [calls[c] EXCEPT !.newestList = FALSE]]
  BY DEF SearchBegins
<1>2. UNCHANGED <<database, timeline, dashboardData, initializing>> /\ dashboardData # None
  BY DEF SearchBegins, ShellShown, flags
<1>3. UNCHANGED <<db, commits, transactionQuery, loadedTransactionCount>>
  BY <1>2 DEF database, timeline
<1> DEFINE a == Ask(query, 0, db, commits)
<1>4. /\ a.at = "list" /\ a.newestList /\ ~a.newest /\ a.query = query /\ a.offset = 0
      /\ a.page = listTransactions(db, query, 0)
  BY AskIsList
<1> HIDE DEF a
<1>5. s \in Calls \ Refreshers /\ s # "more" /\ "more" \in Calls /\ "init" \in Calls
      /\ s # "init" /\ Refreshers \subseteq Calls
  BY ControllerAssumption DEF Calls, Refreshers
<1>6. calls'[s] = a
  BY <1>1, <1>5 DEF a
<1>7. \A d \in Calls \ {s} : /\ ~calls'[d].newestList /\ calls'[d].at = calls[d].at
                             /\ calls'[d].newest = calls[d].newest
  <2>1. SUFFICES ASSUME NEW d \in Calls \ {s}
                 PROVE  /\ ~calls'[d].newestList /\ calls'[d].at = calls[d].at
                        /\ calls'[d].newest = calls[d].newest
    OBVIOUS
  <2> DEFINE r == calls[d]
             g == [r EXCEPT !.newestList = FALSE]
  <2>2. calls'[d] = g /\ DOMAIN r = Fields
    BY <1>1 DEF IInv, Shaped
  <2> HIDE DEF r
  <2>3. DOMAIN r = Fields => ~g.newestList /\ g.at = r.at /\ g.newest = r.newest
    BY DEF Fields
  <2> HIDE DEF g
  <2>4. QED
    BY <2>2, <2>3 DEF r
<1>8. AsAsked(s)'
  BY <1>3, <1>4, <1>6 DEF AsAsked, ListInv, RowsTyped
<1>9. ListsAreAsked'
  BY <1>4, <1>5, <1>6, <1>7, <1>8 DEF ListsAreAsked
<1>10. OneNewestList'
  BY <1>4, <1>5, <1>6, <1>7 DEF OneNewestList
<1>11. FirstRefresh'
  BY <1>2, <1>4, <1>6, <1>7 DEF FirstRefresh, ListInv, Asked
<1>12. InitFlag'
  BY <1>2, <1>5, <1>7 DEF InitFlag, UnderWay, ListInv, Asked
<1>13. RowsTyped' /\ TimelineMatchesQuery'
  BY <1>2, <1>3, RowsStay DEF Written
<1>14. QED
  BY <1>9, <1>10, <1>11, <1>12, <1>13 DEF ListInv, Asked

(* A further page takes no number; "during" tells whether another list was *)
(* under way.                                                              *)
LEMMA MoreAsks ==
  ASSUME IInv, ListInv, MoreBegins
  PROVE  ListInv'
<1> DEFINE a == Ask(transactionQuery, loadedTransactionCount, db, commits)
           b == \E c \in Calls : calls[c].newestList
           g == [a EXCEPT !.during = b]
<1>1. UNCHANGED <<database, timeline, dashboardData, initializing>>
  BY DEF MoreBegins, flags
<1>2. UNCHANGED <<db, commits, transactionQuery, loadedTransactionCount>>
  BY <1>1 DEF database, timeline
<1>3. calls' = [calls EXCEPT !["more"] = g]
  BY DEF MoreBegins
<1>4. /\ a.at = "list" /\ a.newestList /\ ~a.newest /\ a.query = transactionQuery
      /\ a.offset = loadedTransactionCount /\ DOMAIN a = Fields
      /\ a.page = listTransactions(db, transactionQuery, loadedTransactionCount)
  BY AskIsList, AskShaped
<1> HIDE DEF a, b
<1>5. /\ g.at = "list" /\ g.newestList /\ ~g.newest /\ g.query = transactionQuery
      /\ g.offset = loadedTransactionCount /\ (g.during <=> b)
      /\ g.page = listTransactions(db, transactionQuery, loadedTransactionCount)
  BY <1>4 DEF Fields
<1> HIDE DEF g
<1>6. "more" \in Calls /\ "init" \in Calls \ {"more"} /\ Refreshers \subseteq Calls \ {"more"}
  BY CallNames DEF Calls, Refreshers
<1>7. calls'["more"] = g /\ \A d \in Calls \ {"more"} : calls'[d] = calls[d]
  BY <1>3, <1>6 DEF IInv, Shaped
<1>8. \A d \in Calls \ {"more"} : AsAsked(d) => AsAsked(d)'
  BY <1>2, <1>7 DEF AsAsked
<1>9. AsAsked("more")'
  BY <1>2, <1>5, <1>7 DEF AsAsked, ListInv, RowsTyped
<1>10. ListsAreAsked'
  BY <1>5, <1>6, <1>7, <1>8, <1>9 DEF ListsAreAsked, ListInv, Asked, RowsTyped
<1>11. OneNewestList'
  BY <1>2, <1>5, <1>6, <1>7 DEF OneNewestList, ListInv, Asked, b
<1>12. FirstRefresh'
  BY <1>1, <1>5, <1>7 DEF FirstRefresh, ListInv, Asked
<1>13. InitFlag'
  BY <1>1, <1>6, <1>7 DEF InitFlag, UnderWay, ListInv, Asked
<1>14. RowsTyped' /\ TimelineMatchesQuery'
  BY <1>1, <1>2, RowsStay DEF Written
<1>15. QED
  BY <1>10, <1>11, <1>12, <1>13, <1>14 DEF ListInv, Asked

--------------------------------------------------------------------------------
(* The answers to a search and to a further page.                          *)
LEMMA SearchShown ==
  ASSUME IInv, ListInv, NEW s \in Searches, SearchShows(s)
  PROVE  ListInv'
<1>1. /\ calls' = [calls EXCEPT ![s] = NoCall]
      /\ UNCHANGED <<database, dashboardData, initializing>>
  BY DEF SearchShows, flags
<1>2. UNCHANGED <<db, commits>> /\ Written
  BY <1>1 DEF database, Written
<1>3. s \in Calls \ {"more"} /\ "init" \in Calls \ {s}
  BY ControllerAssumption DEF Calls, Refreshers
<1>4. Fewer(calls', calls) /\ \A d \in Calls \ {s} : calls'[d] = calls[d]
  BY <1>1, <1>3, EndingIsFewer DEF IInv
<1>5. calls'[s] = NoCall
  BY <1>1, <1>3 DEF IInv, Shaped
<1>6. UnderWay(calls', "init") => initializing'
  BY <1>1, <1>3, <1>4 DEF UnderWay, ListInv, Asked, InitFlag
<1>7. CASE calls[s].newestList
  <2>1. transactionQuery' = calls[s].query /\ ShowFirstPage(calls[s].page)
    BY <1>7 DEF SearchShows
  <2>2. Asked'
    BY <1>1, <1>2, <1>3, <1>4, <1>5, <1>6, <1>7, NoCallAsks, FewerAsked
  <2>3. PICK rows \in SUBSET Txs :
          /\ calls[s].page = listTransactions(rows, calls[s].query, calls[s].offset)
          /\ commits = 0 => rows = db
    BY <1>3, <1>7 DEF ListInv, Asked, ListsAreAsked, AsAsked
  <2>4. calls[s].offset = 0 /\ calls[s].query \in Queries /\ db \in SUBSET Txs
    BY <1>3, <1>7 DEF ListInv, Asked, ListsAreAsked, RowsTyped
  <2>5. /\ ShowFirstPage(listTransactions(rows, transactionQuery', 0))
        /\ commits' = 0 => rows = db'
        /\ transactionQuery' \in Queries /\ db' \in SUBSET Txs
    BY <1>2, <2>1, <2>3, <2>4
  <2>6. RowsTyped' /\ TimelineMatchesQuery'
    BY <2>5, FirstPageShown
  <2>7. QED
    BY <2>2, <2>6 DEF ListInv
<1>8. CASE ~calls[s].newestList
  <2>1. UNCHANGED timeline
    BY <1>8 DEF SearchShows
  <2>2. QED
    BY <1>1, <1>2, <1>4, <1>6, <2>1, NothingShown
<1>9. QED
  BY <1>7, <1>8

LEMMA MoreShown ==
  ASSUME IInv, ListInv, MoreShows
  PROVE  ListInv'
<1> DEFINE more == calls["more"]
           page == more.page
           longer == transactions \o Unseen(page)
<1>1. /\ calls' = [calls EXCEPT !["more"] = NoCall]
      /\ UNCHANGED <<database, dashboardData, initializing>>
  BY DEF MoreShows, flags
<1>2. UNCHANGED <<db, commits>> /\ Written
  BY <1>1 DEF database, Written
<1>3. "more" \in Calls /\ "init" \in Calls \ {"more"}
  BY CallNames
<1>4. Fewer(calls', calls) /\ \A d \in Calls \ {"more"} : calls'[d] = calls[d]
  BY <1>1, <1>3, EndingIsFewer DEF IInv
<1>5. calls'["more"] = NoCall
  BY <1>1, <1>3 DEF IInv, Shaped
<1>6. UnderWay(calls', "init") => initializing'
  BY <1>1, <1>3, <1>4 DEF UnderWay, ListInv, Asked, InitFlag
<1>7. CASE more.newestList
  <2>1. /\ loadedTransactionCount' = more.offset + Len(FirstOf(page))
        /\ hasMoreTransactions' = (Len(page) > PageSize)
        /\ transactions' = longer
        /\ mixed' = (mixed \/ more.during)
        /\ UNCHANGED transactionQuery
    BY <1>7 DEF MoreShows
  <2>2. Asked'
    BY <1>1, <1>2, <1>4, <1>5, <1>6, <1>7, <2>1, NoCallAsks, FewerAsked
  <2>3. /\ more.offset \in Nat /\ more.query \in Queries
        /\ db \in SUBSET Txs /\ transactions \in Seq(Txs) /\ IsInjective(transactions)
        /\ transactionQuery \in Queries /\ loadedTransactionCount \in Nat
    BY <1>3, <1>7 DEF ListInv, Asked, ListsAreAsked, RowsTyped
  <2>4. PICK rows \in SUBSET Txs :
          /\ page = listTransactions(rows, more.query, more.offset)
          /\ commits = 0 => rows = db
    BY <1>3, <1>7 DEF ListInv, Asked, ListsAreAsked, AsAsked
  <2> DEFINE S == rows \intersect Matches[more.query]
  <2>5. FirstOf(page) \in Seq(S)
    BY <2>3, <2>4, PageIsStretch
  <2>6. S \in SUBSET Txs
    BY <2>3, QueryRows
  <2>7. FirstOf(page) \in Seq(Txs) /\ Len(FirstOf(page)) \in Nat
        /\ ToSet(FirstOf(page)) \subseteq S
    <3>1. FirstOf(page) \in [1 .. Len(FirstOf(page)) -> S]
      BY <2>5
    <3>2. FirstOf(page) \in Seq(Txs)
      BY <2>5, <2>6, SeqMonotonic
    <3>3. QED
      BY <2>5, <3>1, <3>2 DEF ToSet
  <2>8. /\ longer \in Seq(Txs) /\ IsInjective(longer)
        /\ ToSet(longer) \subseteq ToSet(transactions) \union ToSet(FirstOf(page))
    BY <2>3, <2>7, UnseenAreNew
  <2>9. RowsTyped'
    BY <1>2, <2>1, <2>3, <2>7, <2>8 DEF RowsTyped
  <2>10. ASSUME dashboardData' # None, ~mixed'
         PROVE  /\ ToSet(longer) \subseteq Matches[transactionQuery]
                /\ commits = 0 =>
                     LET found == NewestFirst(db \intersect Matches[transactionQuery])
                     IN  /\ IsPrefix(longer, found)
                         /\ loadedTransactionCount' = Len(longer)
                         /\ hasMoreTransactions' = (Len(longer) < Len(found))
    <3>1. ~mixed /\ ~more.during /\ dashboardData # None
      BY <1>1, <2>1, <2>10
    <3>2. more.query = transactionQuery /\ more.offset = loadedTransactionCount
      BY <1>7, <3>1 DEF ListInv, Asked, OneNewestList
    <3>3. ToSet(transactions) \subseteq Matches[transactionQuery]
      BY <3>1 DEF ListInv, TimelineMatchesQuery
    <3>4. ToSet(longer) \subseteq Matches[transactionQuery]
      BY <2>7, <2>8, <3>2, <3>3
    <3>5. ASSUME commits = 0
          PROVE  LET found == NewestFirst(db \intersect Matches[transactionQuery])
                 IN  /\ IsPrefix(longer, found)
                     /\ loadedTransactionCount' = Len(longer)
                     /\ hasMoreTransactions' = (Len(longer) < Len(found))
      <4> DEFINE found == NewestFirst(db \intersect Matches[transactionQuery])
      <4>1. loadedTransactionCount = Len(transactions) /\ IsPrefix(transactions, found)
        BY <3>1, <3>5 DEF ListInv, TimelineMatchesQuery
      <4>2. page = listTransactions(db, transactionQuery, loadedTransactionCount)
        BY <2>4, <3>2, <3>5
      <4>3. RowsTyped
        BY DEF ListInv
      <4>4. /\ IsPrefix(longer, found)
            /\ loadedTransactionCount + Len(FirstOf(page)) = Len(longer)
            /\ Len(page) > PageSize <=> Len(longer) < Len(found)
        BY <4>1, <4>2, <4>3, NextPageGoesOn
      <4> HIDE DEF found, longer, page, more
      <4>5. QED
        BY <2>1, <3>2, <4>4 DEF found
    <3>6. QED
      BY <3>4, <3>5
  <2> HIDE DEF longer
  <2>11. TimelineMatchesQuery'
    BY <1>2, <2>1, <2>8, <2>10 DEF TimelineMatchesQuery
  <2>12. QED
    BY <2>2, <2>9, <2>11 DEF ListInv
<1>8. CASE ~more.newestList
  <2>1. UNCHANGED timeline
    BY <1>8 DEF MoreShows
  <2>2. QED
    BY <1>1, <1>2, <1>4, <1>6, <2>1, NothingShown
<1>9. QED
  BY <1>7, <1>8

--------------------------------------------------------------------------------
(* What the app starts with, and every step.                               *)
LEMMA InitListInv == Init => ListInv
<1> SUFFICES ASSUME Init
             PROVE  ListInv
  OBVIOUS
<1>1. \A c \in Calls : calls[c] = IF c = "init" THEN [NoCall EXCEPT !.at = "open"]
                                  ELSE NoCall
  BY DEF Init
<1>2. "more" \in Calls /\ Refreshers \subseteq Calls
  BY CallNames DEF Calls
<1>3. \A c \in Calls : ~calls[c].newest /\ ~calls[c].newestList
  BY <1>1 DEF NoCall
<1>4. Asked
  BY <1>2, <1>3
     DEF Init, Asked, ListsAreAsked, OneNewestList, FirstRefresh, InitFlag
<1>5. RowsTyped
  BY ControllerAssumption DEF Init, RowsTyped, IsInjective
<1>6. TimelineMatchesQuery
  BY DEF Init, TimelineMatchesQuery
<1>7. QED
  BY <1>4, <1>5, <1>6 DEF ListInv

(* A call that ends without a word to the screen.                          *)
LEMMA QuietEnd ==
  ASSUME IInv, ListInv, NEW c \in Calls, calls' = [calls EXCEPT ![c] = NoCall],
         UNCHANGED <<db, commits, timeline, dashboardData>>,
         c = "init" \/ UNCHANGED initializing
  PROVE  ListInv'
<1>1. Fewer(calls', calls) /\ ~UnderWay(calls', c)
      /\ \A d \in Calls \ {c} : calls'[d] = calls[d]
  BY EndingIsFewer DEF IInv
<1>2. UnderWay(calls', "init") => initializing'
  BY <1>1, CallNames DEF UnderWay, ListInv, Asked, InitFlag
<1>3. QED
  BY <1>1, <1>2, NothingShown DEF Written

(* A call that ends with the answer to its refresh.                        *)
LEMMA ShowingEnd ==
  ASSUME IInv, ListInv, NEW c \in Refreshers, calls' = [calls EXCEPT ![c] = NoCall],
         Show(c), UNCHANGED <<db, commits>>,
         c = "init" \/ UNCHANGED initializing
  PROVE  ListInv'
<1>1. c \in Calls
  BY DEF Calls
<1>2. Fewer(calls', calls) /\ ~UnderWay(calls', c)
      /\ \A d \in Calls \ {c} : calls'[d] = calls[d]
  BY <1>1, EndingIsFewer DEF IInv
<1>3. calls'[c] = NoCall
  BY <1>1 DEF IInv, Shaped
<1>4. UnderWay(calls', "init") => initializing'
  BY <1>2, CallNames DEF UnderWay, ListInv, Asked, InitFlag
<1>5. QED
  BY <1>2, <1>3, <1>4, NoCallAsks, RefreshShown

(* The end of run or of a pass.                                            *)
LEMMA OwnerEndsLists ==
  ASSUME IInv, ListInv, NEW c \in {"run", "resume"}, NEW other,
         FinallyResume(c, calls, other), UNCHANGED <<db, commits, initializing>>,
         UNCHANGED <<timeline, dashboardData>> \/ Show(c)
  PROVE  ListInv'
<1>1. PICK b : calls' = Ended(c, calls, b)
  BY DEF FinallyResume
<1>2. Fewer(calls', calls) /\ ~calls'[c].newestList
      /\ \A d \in Calls \ {"run", "resume"} : calls'[d] = calls[d]
  BY <1>1, FinallyIsFewer DEF IInv
<1>3. ~calls'[c].newest
  BY <1>1, CallNames DEF IInv, Shaped, Ended, NoCall
<1>4. UnderWay(calls', "init") => initializing'
  BY <1>2, CallNames DEF UnderWay, ListInv, Asked, InitFlag
<1>5. c \in Refreshers
  BY DEF Refreshers
<1>6. QED
  BY <1>2, <1>3, <1>4, <1>5, NothingShown, RefreshShown DEF Written

(* A call that begins or goes on to wait for something else.               *)
LEMMA QuietMove ==
  ASSUME IInv, ListInv, NEW c \in Calls, NEW at, calls[c].at # "list",
         calls' = [calls EXCEPT ![c].at = at],
         UNCHANGED <<db, commits, timeline, dashboardData>>,
         \/ c = "init" /\ (initializing' \/ (UNCHANGED initializing /\ UnderWay(calls, c)))
         \/ c # "init" /\ UNCHANGED initializing
  PROVE  ListInv'
<1>1. Fewer(calls', calls) /\ \A d \in Calls \ {c} : calls'[d] = calls[d]
  BY WaitingIsFewer DEF IInv
<1>2. UnderWay(calls', "init") => initializing'
  BY <1>1, CallNames DEF UnderWay, ListInv, Asked, InitFlag
<1>3. QED
  BY <1>1, <1>2, NothingShown DEF Written

LEMMA RunCommitsOnlyLists ==
  ASSUME IInv, ListInv, RunCommitsOnly
  PROVE  ListInv'
<1> DEFINE rest == [calls EXCEPT !["caller"].at = "later"]
<1>1. /\ calls["caller"].at = "none" /\ Written
      /\ FinallyResume("run", rest, processingResume)
      /\ UNCHANGED <<timeline, dashboardData, initializing>>
  BY CommitIsWritten DEF RunCommitsOnly, ListInv
<1>2. /\ Shaped(rest) /\ rest["caller"].newest = calls["caller"].newest
      /\ rest["caller"].newestList = calls["caller"].newestList
      /\ \A d \in Calls \ {"caller"} : rest[d] = calls[d]
  BY CallNames DEF IInv, Shaped, Fields
<1>3. ~calls["caller"].newest /\ ~calls["caller"].newestList
  BY <1>1, CallNames DEF ListInv, Asked, ListsAreAsked, FirstRefresh
<1> HIDE DEF rest
<1>4. PICK b : calls' = Ended("run", rest, b)
  BY <1>1 DEF FinallyResume
<1>5. Fewer(calls', rest) /\ \A d \in Calls \ {"run", "resume"} : calls'[d] = rest[d]
  BY <1>2, <1>4, FinallyIsFewer
<1>6. Fewer(calls', calls)
  BY <1>2, <1>3, <1>5 DEF Fewer
<1>7. UnderWay(calls', "init") => initializing'
  BY <1>1, <1>2, <1>5, CallNames DEF UnderWay, ListInv, Asked, InitFlag
<1>8. QED
  BY <1>1, <1>6, <1>7, NothingShown

LEMMA StepListInv == IInv /\ ListInv /\ [Next]_vars => ListInv'
<1> SUFFICES ASSUME IInv, ListInv, [Next]_vars
             PROVE  ListInv'
  OBVIOUS
<1>w. Commit \/ UNCHANGED database => Written
  BY CommitIsWritten DEF ListInv, database, Written
<1>n. /\ "init" \in Calls /\ "resume" \in Calls /\ "run" \in Calls /\ "caller" \in Calls
      /\ "retry" \in Calls /\ "more" \in Calls
      /\ "init" \in Refreshers /\ "resume" \in Refreshers /\ "run" \in Refreshers
      /\ "caller" \in Refreshers /\ "retry" \in Refreshers
      /\ \A s \in Searches : s \in Calls /\ s # "init"
  BY ControllerAssumption DEF Calls, Refreshers
<1>1. CASE UNCHANGED vars
  <2>1. UNCHANGED <<calls, db, commits, timeline, dashboardData, initializing>>
    BY <1>1 DEF vars, database, flags
  <2>2. QED
    BY <1>n, <2>1, NothingShown
       DEF Fewer, Written, UnderWay, ListInv, Asked, InitFlag
<1>2. CASE AppResumed
  <2>1. UNCHANGED <<db, commits, timeline, dashboardData, initializing>>
    BY <1>2 DEF AppResumed, database
  <2>2. CASE busy \/ processingResume
    BY <1>2, <1>n, <2>1, <2>2, NothingShown
       DEF AppResumed, Fewer, Written, UnderWay, ListInv, Asked, InitFlag
  <2>3. CASE ~(busy \/ processingResume)
    <3>1. calls' = [calls EXCEPT !["resume"].at = "write"] /\ calls["resume"].at = "none"
      BY <1>2, <2>3 DEF AppResumed, IInv, FlagsMatchCalls, UnderWay
    <3>2. QED
      BY <1>n, <2>1, <3>1, QuietMove
  <2>4. QED
    BY <2>2, <2>3
<1>3. CASE RunBegins
  <2>1. calls["run"].at = "none"
    BY <1>3 DEF RunBegins, IInv, FlagsMatchCalls, UnderWay
  <2>2. QED
    BY <1>3, <1>n, <2>1, QuietMove DEF RunBegins, database
<1>4. CASE MoreBegins
  BY <1>4, MoreAsks
<1>5. CASE InitializeAgain
  <2>1. calls["init"].at = "none"
    BY <1>5 DEF InitializeAgain, ListInv, Asked, InitFlag, UnderWay
  <2>2. QED
    BY <1>5, <1>n, <2>1, QuietMove DEF InitializeAgain, database
<1>6. CASE RetryBegins
  BY <1>6, <1>n, RefreshAsked DEF RetryBegins, database, flags, Written
<1>7. CASE clearError \/ clearNotice
  BY <1>7, <1>n, NothingShown
     DEF clearError, clearNotice, database, flags, Fewer, Written, UnderWay, ListInv,
         Asked, InitFlag
<1>8. ASSUME NEW s \in Searches
      PROVE  /\ SearchBegins(s) => ListInv'
             /\ SearchShows(s) => ListInv'
             /\ ListFails(s) => ListInv'
  BY <1>n, SearchAsks, SearchShown, QuietEnd DEF ListFails, database, flags
<1>9. CASE PassAnswered
  <2>1. CASE PassGenerates
    BY <2>1, <1>w, <1>n, RefreshAsked DEF PassGenerates, flags
  <2>2. CASE PassFails
    BY <2>2, OwnerEndsLists DEF PassFails, database
  <2>3. CASE PassShows
    BY <2>3, OwnerEndsLists DEF PassShows, database
  <2>4. QED
    BY <1>9, <2>1, <2>2, <2>3 DEF PassAnswered
<1>10. CASE InitAnswered
  <2>1. CASE InitOpens
    BY <2>1, <1>n, QuietMove DEF InitOpens, flags, UnderWay
  <2>2. CASE InitGenerates
    BY <2>2, <1>w, <1>n, RefreshAsked DEF InitGenerates, flags, UnderWay
  <2>3. CASE InitShows
    BY <2>3, <1>n, ShowingEnd DEF InitShows, database
  <2>4. CASE InitFails
    BY <2>4, <1>n, QuietEnd DEF InitFails
  <2>5. QED
    BY <1>10, <2>1, <2>2, <2>3, <2>4 DEF InitAnswered
<1>11. CASE RunAnswered
  <2>1. CASE RunFails
    BY <2>1, OwnerEndsLists DEF RunFails, database
  <2>2. CASE RunCommits
    BY <2>2, <1>w, <1>n, RefreshAsked DEF RunCommits, flags
  <2>3. CASE RunShows
    BY <2>3, OwnerEndsLists DEF RunShows, database
  <2>4. CASE RunNotRefreshed
    BY <2>4, OwnerEndsLists DEF RunNotRefreshed, database
  <2>5. CASE RunCommitsOnly
    BY <2>5, RunCommitsOnlyLists
  <2>6. QED
    BY <1>11, <2>1, <2>2, <2>3, <2>4, <2>5 DEF RunAnswered
<1>12. CASE CallerAnswered
  <2>1. CASE CallerRefreshes
    BY <2>1, <1>n, RefreshAsked DEF CallerRefreshes, database, flags, Written
  <2>2. CASE CallerShows
    BY <2>2, <1>n, QuietEnd, ShowingEnd DEF CallerShows, database, flags
  <2>3. QED
    BY <1>12, <2>1, <2>2 DEF CallerAnswered
<1>13. CASE RetryAnswered
  BY <1>13, <1>n, QuietEnd, ShowingEnd
     DEF RetryAnswered, RetryShows, RetryFails, database, flags
<1>14. CASE MoreShows \/ ListFails("more")
  BY <1>14, <1>n, MoreShown, QuietEnd DEF ListFails, database, flags
<1>15. CASE WrittenElsewhere
  BY <1>15, <1>w, <1>n, RefreshAsked DEF WrittenElsewhere, flags
<1>16. QED
  BY <1>1, <1>2, <1>3, <1>4, <1>5, <1>6, <1>7, <1>8, <1>9, <1>10, <1>11, <1>12,
     <1>13, <1>14, <1>15 DEF Next, UserActs

(* The rows on the screen are rows of the query shown with them, each      *)
(* once, and the newest ones while nothing is committed, in whatever order *)
(* refreshes, searches, pages and writes are answered.                     *)
THEOREM RowsMatchQuery == Spec => []TimelineMatchesQuery
<1>1. Init => IInv /\ ListInv
  BY InitIInv, InitListInv
<1>2. IInv /\ ListInv /\ [Next]_vars => IInv' /\ ListInv'
  BY StepIInv, StepListInv
<1>3. ListInv => TimelineMatchesQuery
  BY DEF ListInv
<1>4. QED
  BY <1>1, <1>2, <1>3, PTL DEF Spec
================================================================================
