----------------------------- MODULE AppController -----------------------------
(***************************************************************************)
(* AppController: what the screens show of the database, and the calls     *)
(* that load it.  The controller awaits a FinanceRepository and does not   *)
(* assume in which order its answers come, so its calls overlap: a full    *)
(* refresh, a search, a further page, a write, a resume of the app.        *)
(*                                                                         *)
(* A list is read when it is asked for and answered later; a write takes   *)
(* effect when it is answered.  What a refresh loads besides the timeline  *)
(* (accounts, dashboard, planning) is the number of the commit it was read *)
(* at.  A request number of the code is here the fact that a call still    *)
(* has the newest one.                                                     *)
(***************************************************************************)
EXTENDS Integers, FiniteSets, SequencesExt

CONSTANTS Txs,            \* transactions; a larger number is a newer one
          Queries,        \* search text and filter, as one value
          Unfiltered,     \* the query that every transaction matches
          Matches,        \* the transactions each query selects
          Searches,       \* calls of refreshTransactions that may overlap
          PageSize,       \* 250
          Stored,         \* what the database may hold at the start
          None,
          MaxCommits, MaxCalls   \* bounds: commits, and calls at once

ASSUME ControllerAssumption ==
  /\ Txs \subseteq Nat /\ IsFiniteSet(Txs)
  /\ Stored \subseteq SUBSET Txs
  /\ Searches \intersect {"init", "resume", "run", "caller", "retry", "more"} = {}
  /\ Unfiltered \in Queries
  /\ Matches \in [Queries -> SUBSET Txs] /\ Matches[Unfiltered] = Txs
  /\ PageSize \in Nat \ {0} /\ MaxCommits \in Nat /\ MaxCalls \in Nat

VARIABLES
  db,                \* the transactions stored
  commits,           \* how many writes the database has seen
  opened,            \* whether there is a database to read
  transactions,      \* the timeline shown
  transactionQuery,  \* the query shown with it
  hasMoreTransactions,
  loadedTransactionCount,
  dashboardData,     \* the commit the other lists were read at, or None
  initializing, busy, processingResume, resumeRefreshPending,
  errorMessage,      \* whether one is shown
  noticeMessage,     \* whether "saved, but not reloaded" is shown
  calls,             \* the calls under way
  owed,              \* history: a resume was queued, and since then no pass
                     \* began and no initialize failed
  mixed              \* history: the last page was asked for during another list

database == <<db, commits, opened>>
timeline == <<transactions, transactionQuery, hasMoreTransactions,
              loadedTransactionCount, mixed>>
flags == <<initializing, busy, processingResume, resumeRefreshPending>>
messages == <<errorMessage, noticeMessage>>
vars == <<database, timeline, dashboardData, flags, messages, calls, owed>>

(* _loadingMoreTransactions holds exactly while the call "more" is under   *)
(* way; the other flags can outlive or precede their call.                 *)
Refreshers == {"init", "resume", "run", "caller", "retry"}
Calls == Refreshers \union Searches \union {"more"}

--------------------------------------------------------------------------------
(* Reading.                                                                *)

NewestFirst(S) ==
  [i \in 1 .. Cardinality(S) |->
     CHOOSE tx \in S : Cardinality({newer \in S : newer > tx}) = i - 1]

listTransactions(rows, query, offset) ==
  LET found == NewestFirst(rows \intersect Matches[query])
      last == offset + PageSize + 1
  IN  SubSeq(found, offset + 1, IF Len(found) < last THEN Len(found) ELSE last)

FirstOf(page) == SubSeq(page, 1, IF Len(page) < PageSize THEN Len(page) ELSE PageSize)

(* A call: "open", "write" and "list" name what it waits for; "later" is a *)
(* refresh its caller still has to ask for.  newest and newestList say     *)
(* that no refresh and no list was asked for after it.                     *)
NoCall == [at |-> "none", newest |-> FALSE, newestList |-> FALSE,
           query |-> Unfiltered, offset |-> 0, page |-> <<>>, read |-> 0,
           during |-> FALSE]

Ask(query, offset, rows, at) ==
  [at |-> "list", newest |-> FALSE, newestList |-> TRUE, query |-> query,
   offset |-> offset, page |-> listTransactions(rows, query, offset), read |-> at,
   during |-> FALSE]

Room == Cardinality({c \in Calls : calls[c].at # "none"}) < MaxCalls

(* refresh(): the newest refresh and the newest list, of what is shown.    *)
Refreshing(c, rows, at) ==
  [d \in Calls |->
     IF d = c THEN [Ask(transactionQuery, 0, rows, at) EXCEPT !.newest = TRUE]
     ELSE [calls[d] EXCEPT !.newest = FALSE, !.newestList = FALSE]]

ShowFirstPage(page) ==
  /\ hasMoreTransactions' = (Len(page) > PageSize)
  /\ transactions' = FirstOf(page)
  /\ loadedTransactionCount' = Len(FirstOf(page))
  /\ mixed' = FALSE

(* Mutant: an answer is shown though a newer refresh is under way.         *)
ShowAny(c) ==
  /\ dashboardData' = calls[c].read
  /\ IF calls[c].newestList
     THEN ShowFirstPage(calls[c].page) /\ UNCHANGED transactionQuery
     ELSE UNCHANGED timeline

(* The answer to a refresh: all of it, nothing of it, or without the       *)
(* timeline, for which a search has asked since.                           *)
Show(c) ==
  /\ dashboardData' = IF calls[c].newest THEN calls[c].read ELSE dashboardData
  /\ IF calls[c].newest /\ calls[c].newestList
     THEN ShowFirstPage(calls[c].page) /\ UNCHANGED transactionQuery
     ELSE UNCHANGED timeline

(* What may be committed: a transaction more or less, or something else.   *)
Commit ==
  /\ commits < MaxCommits
  /\ commits' = commits + 1
  /\ \E tx \in Txs : db' \in {db, db \union {tx}, db \ {tx}}
  /\ UNCHANGED opened

--------------------------------------------------------------------------------
(* processAppResume: a pass generates the due drafts and then refreshes.   *)

Ended(c, rest, passBegins) ==
  [rest EXCEPT ![c] = NoCall,
               !["resume"] = IF passBegins THEN [NoCall EXCEPT !.at = "write"]
                             ELSE IF c = "resume" THEN NoCall ELSE @]

(* Mutants: a queued resume is not looked for; it is taken and not begun.  *)
FinallyNothing(c, rest, otherUnderWay) ==
  /\ processingResume' = (processingResume /\ c # "resume")
  /\ calls' = Ended(c, rest, FALSE)
  /\ UNCHANGED <<resumeRefreshPending, owed>>

FinallyForgets(c, rest, otherUnderWay) ==
  /\ resumeRefreshPending' = (resumeRefreshPending /\ otherUnderWay)
  /\ processingResume' = (processingResume /\ c # "resume")
  /\ calls' = Ended(c, rest, FALSE)
  /\ UNCHANGED owed

(* The end of run or of a pass, in its "finally": a resume queued          *)
(* meanwhile starts now, unless the other one is still under way.  While   *)
(* initializing, processAppResume returns at once.                         *)
FinallyResume(c, rest, otherUnderWay) ==
  LET taken == resumeRefreshPending /\ ~otherUnderWay
      begins == taken /\ ~initializing
  IN  /\ resumeRefreshPending' = (resumeRefreshPending /\ ~taken)
      /\ processingResume' = (begins \/ (processingResume /\ c # "resume"))
      /\ owed' = (owed /\ ~begins)
      /\ calls' = Ended(c, rest, begins)

AppResumed ==
  /\ ~initializing
  /\ busy \/ processingResume \/ Room
  /\ IF busy \/ processingResume
     THEN /\ resumeRefreshPending' = TRUE
          /\ owed' = TRUE
          /\ UNCHANGED <<processingResume, calls>>
     ELSE /\ resumeRefreshPending' = FALSE
          /\ processingResume' = TRUE
          /\ owed' = FALSE
          /\ calls' = [calls EXCEPT !["resume"].at = "write"]
  /\ UNCHANGED <<database, timeline, dashboardData, initializing, busy, messages>>

(* generateDueRecurring has answered, and the refresh asks; or it threw.   *)
PassGenerates ==
  /\ calls["resume"].at = "write" /\ opened
  /\ Commit \/ UNCHANGED database
  /\ calls' = Refreshing("resume", db', commits')
  /\ UNCHANGED <<timeline, dashboardData, flags, messages, owed>>

PassFails ==
  /\ calls["resume"].at \in {"write", "list"}
  /\ errorMessage' = TRUE
  /\ FinallyResume("resume", calls, busy)
  /\ UNCHANGED <<database, timeline, dashboardData, initializing, busy, noticeMessage>>

PassShows ==
  /\ calls["resume"].at = "list"
  /\ Show("resume")
  /\ FinallyResume("resume", calls, busy)
  /\ UNCHANGED <<database, initializing, busy, messages>>

--------------------------------------------------------------------------------
(* initialize, at the start and from the recovery screen.                  *)

Fatal == errorMessage /\ dashboardData = None

InitializeAgain ==
  /\ Fatal /\ ~initializing /\ Room
  /\ initializing' = TRUE
  /\ errorMessage' = FALSE
  /\ calls' = [calls EXCEPT !["init"].at = "open"]
  /\ UNCHANGED <<database, timeline, dashboardData, busy, processingResume,
                 resumeRefreshPending, noticeMessage, owed>>

InitOpens ==
  /\ calls["init"].at = "open"
  /\ opened' = TRUE
  /\ calls' = [calls EXCEPT !["init"].at = "write"]
  /\ owed' = FALSE
  /\ UNCHANGED <<db, commits, timeline, dashboardData, flags, messages>>

InitGenerates ==
  /\ calls["init"].at = "write"
  /\ Commit \/ UNCHANGED database
  /\ calls' = Refreshing("init", db', commits')
  /\ UNCHANGED <<timeline, dashboardData, flags, messages, owed>>

InitShows ==
  /\ calls["init"].at = "list"
  /\ Show("init")
  /\ initializing' = FALSE
  /\ calls' = [calls EXCEPT !["init"] = NoCall]
  /\ UNCHANGED <<database, busy, processingResume, resumeRefreshPending, messages, owed>>

InitFails ==
  /\ calls["init"].at # "none"
  /\ opened' \in IF calls["init"].at = "open" THEN {opened, TRUE} ELSE {opened}
  /\ errorMessage' = TRUE
  /\ initializing' = FALSE
  /\ calls' = [calls EXCEPT !["init"] = NoCall]
  /\ owed' = FALSE
  /\ UNCHANGED <<db, commits, timeline, dashboardData, busy, processingResume,
                 resumeRefreshPending, noticeMessage>>

--------------------------------------------------------------------------------
(* run: one write at a time, then a refresh whose failure is only a notice.*)

ShellShown == ~initializing /\ dashboardData # None

RunBegins ==
  /\ ShellShown /\ ~busy /\ Room
  /\ busy' = TRUE
  /\ errorMessage' = FALSE /\ noticeMessage' = FALSE
  /\ calls' = [calls EXCEPT !["run"].at = "write"]
  /\ UNCHANGED <<database, timeline, dashboardData, initializing, processingResume,
                 resumeRefreshPending, owed>>

RunFails ==
  /\ calls["run"].at = "write"
  /\ errorMessage' = TRUE
  /\ busy' = FALSE
  /\ FinallyResume("run", calls, processingResume)
  /\ UNCHANGED <<database, timeline, dashboardData, initializing, noticeMessage>>

RunCommits ==
  /\ calls["run"].at = "write"
  /\ Commit
  /\ calls' = Refreshing("run", db', commits')
  /\ UNCHANGED <<timeline, dashboardData, flags, messages, owed>>

RunShows ==
  /\ calls["run"].at = "list"
  /\ Show("run")
  /\ busy' = FALSE
  /\ FinallyResume("run", calls, processingResume)
  /\ UNCHANGED <<database, initializing, messages>>

RunNotRefreshed ==
  /\ calls["run"].at = "list"
  /\ noticeMessage' = TRUE
  /\ busy' = FALSE
  /\ FinallyResume("run", calls, processingResume)
  /\ UNCHANGED <<database, timeline, dashboardData, initializing, errorMessage>>

(* refreshAfter: false.  A new account or category: the caller stores its  *)
(* icon and then refreshes by itself, and tells of a failure by itself.    *)
RunCommitsOnly ==
  /\ calls["run"].at = "write" /\ calls["caller"].at = "none"
  /\ Commit
  /\ busy' = FALSE
  /\ FinallyResume("run", [calls EXCEPT !["caller"].at = "later"], processingResume)
  /\ UNCHANGED <<timeline, dashboardData, initializing, messages>>

CallerRefreshes ==
  /\ calls["caller"].at = "later"
  /\ calls' = Refreshing("caller", db, commits)
  /\ UNCHANGED <<database, timeline, dashboardData, flags, messages, owed>>

(* Screens that write past run, whether it is busy or not, and refresh: a  *)
(* restore replaces the ledger, the choice of an icon leaves it alone.     *)
WrittenElsewhere ==
  /\ ShellShown /\ calls["caller"].at = "none" /\ Room
  /\ Commit \/ UNCHANGED database
  /\ calls' = Refreshing("caller", db', commits')
  /\ UNCHANGED <<timeline, dashboardData, flags, messages, owed>>

CallerShows ==
  /\ calls["caller"].at = "list"
  /\ Show("caller") \/ UNCHANGED <<timeline, dashboardData>>
  /\ calls' = [calls EXCEPT !["caller"] = NoCall]
  /\ UNCHANGED <<database, flags, messages, owed>>

--------------------------------------------------------------------------------
(* retryPresentationRefresh, from the notice; both messages can be closed. *)

RetryBegins ==
  /\ noticeMessage /\ ~busy /\ calls["retry"].at = "none" /\ Room
  /\ calls' = Refreshing("retry", db, commits)
  /\ UNCHANGED <<database, timeline, dashboardData, flags, messages, owed>>

RetryShows ==
  /\ calls["retry"].at = "list"
  /\ Show("retry")
  /\ noticeMessage' = FALSE /\ errorMessage' = FALSE
  /\ calls' = [calls EXCEPT !["retry"] = NoCall]
  /\ UNCHANGED <<database, flags, owed>>

RetryFails ==
  /\ calls["retry"].at = "list"
  /\ errorMessage' = TRUE
  /\ calls' = [calls EXCEPT !["retry"] = NoCall]
  /\ UNCHANGED <<database, timeline, dashboardData, flags, noticeMessage, owed>>

clearError ==
  /\ errorMessage /\ ShellShown
  /\ errorMessage' = FALSE
  /\ UNCHANGED <<database, timeline, dashboardData, flags, noticeMessage, calls, owed>>

clearNotice ==
  /\ noticeMessage
  /\ noticeMessage' = FALSE
  /\ UNCHANGED <<database, timeline, dashboardData, flags, errorMessage, calls, owed>>

--------------------------------------------------------------------------------
(* refreshTransactions: the newest list; its query is shown with its rows. *)

SearchBegins(s) ==
  /\ ShellShown /\ calls[s].at = "none" /\ Room
  /\ \E query \in Queries :
       calls' = [c \in Calls |-> IF c = s THEN Ask(query, 0, db, commits)
                                 ELSE [calls[c] EXCEPT !.newestList = FALSE]]
  /\ UNCHANGED <<database, timeline, dashboardData, flags, messages, owed>>

(* Mutant: a late answer is shown.                                         *)
SearchShowsLate(s) ==
  /\ calls[s].at = "list"
  /\ transactionQuery' = calls[s].query /\ ShowFirstPage(calls[s].page)
  /\ calls' = [calls EXCEPT ![s] = NoCall]
  /\ UNCHANGED <<database, dashboardData, flags, messages, owed>>

SearchShows(s) ==
  /\ calls[s].at = "list"
  /\ IF calls[s].newestList
     THEN transactionQuery' = calls[s].query /\ ShowFirstPage(calls[s].page)
     ELSE UNCHANGED timeline
  /\ calls' = [calls EXCEPT ![s] = NoCall]
  /\ UNCHANGED <<database, dashboardData, flags, messages, owed>>

ListFails(c) ==
  /\ calls[c].at = "list"
  /\ errorMessage' = (errorMessage \/ calls[c].newestList)
  /\ calls' = [calls EXCEPT ![c] = NoCall]
  /\ UNCHANGED <<database, timeline, dashboardData, flags, noticeMessage, owed>>

--------------------------------------------------------------------------------
(* loadMoreTransactions: one further page at a time; it takes no number of *)
(* its own and is dropped when one was taken since.                        *)

MoreBegins ==
  /\ ShellShown /\ hasMoreTransactions /\ ~busy /\ calls["more"].at = "none" /\ Room
  /\ calls' = [calls EXCEPT !["more"] =
                 [Ask(transactionQuery, loadedTransactionCount, db, commits)
                    EXCEPT !.during = \E c \in Calls : calls[c].newestList]]
  /\ UNCHANGED <<database, timeline, dashboardData, flags, messages, owed>>

(* The rows of a page that are not shown yet, in the page's own order.      *)
Unseen(page) == NewestFirst(ToSet(FirstOf(page)) \ ToSet(transactions))

MoreShows ==
  /\ calls["more"].at = "list"
  /\ IF calls["more"].newestList
     THEN LET page == calls["more"].page
          IN  /\ loadedTransactionCount' = calls["more"].offset + Len(FirstOf(page))
              /\ hasMoreTransactions' = (Len(page) > PageSize)
              /\ transactions' = transactions \o Unseen(page)
              /\ mixed' = (mixed \/ calls["more"].during)
              /\ UNCHANGED transactionQuery
     ELSE UNCHANGED timeline
  /\ calls' = [calls EXCEPT !["more"] = NoCall]
  /\ UNCHANGED <<database, dashboardData, flags, messages, owed>>

--------------------------------------------------------------------------------
Init ==
  /\ db \in Stored /\ commits = 0 /\ opened = FALSE
  /\ transactions = <<>> /\ transactionQuery = Unfiltered
  /\ hasMoreTransactions = FALSE /\ loadedTransactionCount = 0
  /\ dashboardData = None
  /\ initializing = TRUE /\ busy = FALSE
  /\ processingResume = FALSE /\ resumeRefreshPending = FALSE
  /\ errorMessage = FALSE /\ noticeMessage = FALSE
  /\ calls = [c \in Calls |-> IF c = "init" THEN [NoCall EXCEPT !.at = "open"] ELSE NoCall]
  /\ owed = FALSE /\ mixed = FALSE

PassAnswered == PassGenerates \/ PassFails \/ PassShows
InitAnswered == InitOpens \/ InitGenerates \/ InitShows \/ InitFails
RunAnswered == RunFails \/ RunCommits \/ RunShows \/ RunNotRefreshed \/ RunCommitsOnly
CallerAnswered == CallerRefreshes \/ CallerShows
RetryAnswered == RetryShows \/ RetryFails

UserActs ==
  \/ AppResumed \/ InitializeAgain \/ RunBegins \/ RetryBegins \/ MoreBegins
  \/ clearError \/ clearNotice \/ WrittenElsewhere
  \/ \E s \in Searches : SearchBegins(s)

Next ==
  \/ UserActs
  \/ PassAnswered \/ InitAnswered \/ RunAnswered \/ CallerAnswered \/ RetryAnswered
  \/ \E s \in Searches : SearchShows(s) \/ ListFails(s)
  \/ MoreShows \/ ListFails("more")

(* Every call of the repository is answered or throws; the user need not   *)
(* do anything.                                                            *)
Fairness ==
  /\ WF_vars(PassAnswered) /\ WF_vars(InitAnswered) /\ WF_vars(RunAnswered)

Spec == Init /\ [][Next]_vars /\ Fairness
--------------------------------------------------------------------------------
(* Properties.                                                             *)

Page == UNION {[1 .. n -> Txs] : n \in 0 .. PageSize + 1}

TypeOK ==
  /\ db \in SUBSET Txs /\ commits \in 0 .. MaxCommits /\ opened \in BOOLEAN
  /\ ToSet(transactions) \subseteq Txs
  /\ transactionQuery \in Queries
  /\ hasMoreTransactions \in BOOLEAN /\ loadedTransactionCount \in Nat
  /\ dashboardData \in 0 .. MaxCommits \union {None}
  /\ \A flag \in ToSet(flags \o messages \o <<owed, mixed>>) : flag \in BOOLEAN
  /\ calls \in [Calls -> [at : {"none", "open", "write", "list", "later"},
                          newest : BOOLEAN, newestList : BOOLEAN,
                          query : Queries, offset : Nat, page : Page,
                          read : 0 .. MaxCommits, during : BOOLEAN]]

(* The rows on the screen are rows of the query shown beside them, each    *)
(* once, and as long as nothing is committed they are the newest ones and  *)
(* hasMoreTransactions says whether there are others: whatever answers     *)
(* fail, come late or come out of order.  The exception is a page that was *)
(* asked for while a search or refresh was under way: it passes for new    *)
(* when that one is answered first.                                        *)
TimelineMatchesQuery ==
  LET found == NewestFirst(db \intersect Matches[transactionQuery])
  IN  dashboardData # None /\ ~mixed =>
        /\ ToSet(transactions) \subseteq Matches[transactionQuery]
        /\ IsInjective(transactions)
        /\ commits = 0 => /\ IsPrefix(transactions, found)
                          /\ loadedTransactionCount = Len(transactions)
                          /\ hasMoreTransactions = (Len(transactions) < Len(found))

(* No answer replaces accounts, dashboard and planning by older ones.      *)
NeverOlder ==
  [][dashboardData # None => dashboardData' >= dashboardData]_vars

(* A queued resume has an owner: a write or a pass is under way whose end  *)
(* will start it, and is not only flagged as such.                         *)
PendingHasOwner ==
  resumeRefreshPending => \/ busy /\ calls["run"].at # "none"
                          \/ processingResume /\ calls["resume"].at # "none"

(* A resume that arrives during a write or a pass is followed by a pass of *)
(* its own, unless initialize fails in between.                            *)
ResumeServed == owed ~> ~owed
================================================================================
