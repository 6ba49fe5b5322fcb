----------------------------- MODULE RaftHistory -----------------------------
(***************************************************************************)
(* The inductive invariant behind log matching and state-machine safety.   *)
(*                                                                         *)
(* It speaks of led, a function that gives for every term the log its      *)
(* leader had built when it last appended to it: empty when the term had   *)
(* no leader, kept when that leader crashes and its log is overwritten.    *)
(* led is not a variable of the specification.  The invariant says that    *)
(* some led explains the state: every log, message, acknowledgement and    *)
(* commit index there is.                                                  *)
(***************************************************************************)
EXTENDS RaftInvariants

\* a and b hold the same entries up to n.
SamePrefix(a, b, n) ==
  /\ n <= Len(a) /\ n <= Len(b)
  /\ \A k \in 1 .. n : a[k] = b[k]

\* No entry of l is of a later term than t.
BoundedBy(l, t) == \A n \in 1 .. Len(l) : l[n].term <= t

\* Each entry of l follows what it followed in the log of its term's leader.
Fits(l, led) == \A n \in 1 .. Len(l) : SamePrefix(l, led[l[n].term], n)

\* AppendEntries m carries a piece of the log l.
SliceOf(m, l) ==
  /\ m.prev_index + Len(m.entries) <= Len(l)
  /\ m.prev_term = TermAt(l, m.prev_index)
  /\ \A k \in 1 .. Len(m.entries) : m.entries[k] = l[m.prev_index + k]

StandsFor(c, t) == c \in live /\ role[c] = Candidate /\ term[c] = t

LedFits(led) ==
  \A t \in DOMAIN led : BoundedBy(led[t], t) /\ Fits(led[t], led)

DiskFits(led) ==
  \A i \in Node : BoundedBy(disk[i].log, disk[i].term) /\ Fits(disk[i].log, led)

SentFits(led) == \A m \in wire : IsAppend(m) => SliceOf(m, led[m.term])

LeadersLed(led) ==
  \A i \in live : role[i] = Leader => log[i] = led[term[i]] /\ led[term[i]] # <<>>

\* Only a leader creates entries: whoever built led[t] won term t, and does not
\* stand for it any more.
LedElected(led) ==
  \A t \in DOMAIN led :
    led[t] # <<>> => \E c \in Node : Elected(c, t) /\ ~StandsFor(c, t)

\* Inductive with ElectionInv: every log, on a disk or in a message, is made of
\* pieces of the leaders' logs.
LogInv(led) ==
  /\ LedFits(led) /\ DiskFits(led) /\ SentFits(led)
  /\ LeadersLed(led) /\ LedElected(led)

LogHistory == \E led \in [Term -> Seq(Entry)] : LogInv(led)

-----------------------------------------------------------------------------
(* What a step does to the log of the node it touches *)

StepOf(i) ==
  \/ Timeout(i)
  \/ \E command \in Command \cup {Noop} : Propose(i, command)
  \/ TakeCommitted(i)
  \/ Crash(i) \/ CrashInCampaign(i) \/ Restart(i)
  \/ \E m \in wire : Handle(i, m) \/ CrashInHandler(i, m)

\* AppendEntries are sent by a leader, from the log it then has.
LeaderSends(i) ==
  \A m \in wire' : IsAppend(m) => m \in wire \/
    /\ m.from = i /\ m.term = term'[i]
    /\ i \in live' /\ role'[i] = Leader /\ SliceOf(m, log'[i])

\* The log stays; the node may send what it has, but is not newly a leader, and
\* stands for a term only if it did or has just begun to.
Idle(i) ==
  /\ disk'[i].log = disk[i].log
  /\ LeaderSends(i)
  /\ i \in live' /\ role'[i] = Leader =>
       i \in live /\ role[i] = Leader /\ term'[i] = term[i]
  /\ i \in live' /\ role'[i] = Candidate =>
       StandsFor(i, term'[i]) \/ term'[i] > disk[i].term

\* A leader, or a node becoming one, appends an entry of its term.
Grow(i) ==
  /\ i \in live /\ i \in live' /\ role'[i] = Leader
  /\ \E e \in Entry :
       e.term = term'[i] /\ disk'[i].log = Append(disk[i].log, e)
  /\ LeaderSends(i)
  /\ \/ role[i] = Leader /\ term'[i] = term[i]
     \/ StandsFor(i, term'[i])
     \/ term'[i] > disk[i].term

\* A follower cuts its log at the first entry that differs from the message's,
\* and appends the rest of the message unless it crashes first.
Obey(i) ==
  /\ i \in live /\ (i \in live' => role'[i] = Follower)
  /\ \A m \in wire' : IsAppend(m) => m \in wire
  /\ \E m \in wire : \E k \in Lowest(Missing(i, m)) :
       /\ IsAppend(m) /\ m.from # i /\ m.term = disk'[i].term /\ Consistent(i, m)
       /\ \/ disk'[i].log = Spliced(i, m, k)
          \/ disk'[i].log = SubSeq(log[i], 1, m.prev_index + k - 1)

\* led2 has what led has, and may have more.
Extended(led, led2) ==
  \A t \in Term : SamePrefix(led[t], led2[t], Len(led[t]))

\* What led becomes when leader i appends.
Built(led, i) == [led EXCEPT ![term'[i]] = log'[i]]

\* No two nodes are elected in one term.
OneWinner ==
  \A a, b \in Node : \A t \in Term : Elected(a, t) /\ Elected(b, t) => a = b

-----------------------------------------------------------------------------
(* Commitment *)

IsAck(m) == m.kind = "AppendResponse" /\ m.success = TRUE

\* Node v once held the first n entries of the leader of term t while it was in
\* that term: it acknowledged them, or it is that leader.
Backed(led, v, n, t) ==
  \/ \E m \in wire :
       IsAck(m) /\ m.from = v /\ m.term = t /\ n <= m.match_index
  \/ Elected(v, t) /\ n <= Len(led[t])

\* Entry n is one the leader of term t created itself.
Own(led, n, t) == n \in 1 .. Len(led[t]) /\ led[t][n].term = t

\* A majority has backed n; a majority has, or is not past the term yet.
Chosen(led, n, t) ==
  /\ Own(led, n, t)
  /\ \E Q \in SUBSET Node : IsQuorum(Q) /\ \A v \in Q : Backed(led, v, n, t)

MayBeChosen(led, n, t) ==
  /\ Own(led, n, t)
  /\ \E Q \in SUBSET Node :
       IsQuorum(Q) /\ \A v \in Q : Backed(led, v, n, t) \/ disk[v].term <= t

\* While a node stays in the term, its disk holds what it backed.
AcksHold(led) ==
  \A m \in wire : IsAck(m) =>
    /\ m.match_index <= Len(led[m.term])
    /\ disk[m.from].term = m.term =>
         SamePrefix(disk[m.from].log, led[m.term], m.match_index)

OwnersHold(led) ==
  \A t \in DOMAIN led : \A v \in Node :
    disk[v].term = t /\ Elected(v, t) =>
      SamePrefix(disk[v].log, led[t], Len(led[t]))

\* Past the term it holds it as long as it may be chosen,
BackersHold(led) ==
  \A t \in DOMAIN led : \A n \in 1 .. Len(led[t]) : MayBeChosen(led, n, t) =>
    \A v \in Node : Backed(led, v, n, t) => SamePrefix(disk[v].log, led[t], n)

\* and so does every later leader,
LaterLeadersHold(led) ==
  \A t \in DOMAIN led : \A n \in 1 .. Len(led[t]) : MayBeChosen(led, n, t) =>
    \A u \in DOMAIN led :
      t < u /\ led[u] # <<>> => SamePrefix(led[u], led[t], n)

\* because a candidate holds it as soon as one of the backers votes for it.
CandidatesHold(led) ==
  \A c \in live : role[c] = Candidate =>
    \A t \in DOMAIN led : \A n \in 1 .. Len(led[t]) :
      MayBeChosen(led, n, t) /\ t < term[c] =>
        \A v \in Node : VotedFor(v, c, term[c]) /\ Backed(led, v, n, t) =>
          SamePrefix(log[c], led[t], n)

\* A candidate's request describes the log it still has.
RequestsAreTrue ==
  \A m \in wire : m.kind = "RequestVote" /\ StandsFor(m.from, m.term) =>
    /\ m.last_log_index = Len(log[m.from])
    /\ m.last_log_term = LastTerm(log[m.from])

\* A vote answers a request.
GrantsAnswer == \A m \in wire : IsGrant(m) => m.term <= disk[m.to].term

\* The first n entries of l are decided in a term up to t.
Decided(led, l, n, t) ==
  \/ n = 0
  \/ \E u \in DOMAIN led : \E N \in 1 .. Len(led[u]) :
       u <= t /\ n <= N /\ Chosen(led, N, u) /\ SamePrefix(l, led[u], n)

\* A commit index, known or sent, is that of a decided prefix.
CommitsDecided(led) ==
  \A i \in Node : Decided(led, disk[i].log, commit_index[i], disk[i].term)
SentDecided(led) ==
  \A m \in wire : IsAppend(m) =>
    Decided(led, led[m.term], m.leader_commit, m.term)

\* A leader's match index is one the peer acknowledged in its term.
MatchesAcked ==
  \A i \in live : role[i] = Leader => \A p \in Node \ {i} :
    \/ match_index[i][p] = 0
    \/ \E m \in wire : /\ IsAck(m) /\ m.from = p /\ m.term = term[i]
                       /\ match_index[i][p] <= m.match_index

\* Inductive with LogInv and ElectionInv.
CommitInv(led) ==
  /\ AcksHold(led) /\ OwnersHold(led) /\ BackersHold(led)
  /\ LaterLeadersHold(led) /\ CandidatesHold(led)
  /\ RequestsAreTrue /\ GrantsAnswer
  /\ CommitsDecided(led) /\ SentDecided(led) /\ MatchesAcked

\* Some led explains everything.
History ==
  \E led \in [Term -> Seq(Entry)] : LogInv(led) /\ CommitInv(led)

-----------------------------------------------------------------------------
(* What a step does to acknowledgements, votes and commit indices *)

\* Node i has just accepted AppendEntries a: its log holds what a carries.
Takes(i, a) ==
  /\ i \in live /\ IsAppend(a) /\ a.term = disk'[i].term /\ Consistent(i, a)
  /\ \/ Missing(i, a) = {} /\ disk'[i].log = log[i]
     \/ \E k \in Lowest(Missing(i, a)) : disk'[i].log = Spliced(i, a, k)

\* It acknowledges what it has accepted,
AcksTaken(i) ==
  \A m \in wire' \ wire : IsAck(m) =>
    m.from = i /\ \E a \in wire : /\ Takes(i, a) /\ m.term = a.term
                                /\ m.match_index = Matched(i, a)

\* asks for votes with the log it has,
AsksTruly(i) ==
  \A m \in wire' \ wire : m.kind = "RequestVote" =>
    /\ m.from = i /\ i \in live
    /\ m.last_log_index = Len(log[i]) /\ m.last_log_term = LastTerm(log[i])

\* votes for a candidate whose log is as up to date as its own,
GrantsUpToDate(i) ==
  \A m \in wire' \ wire : IsGrant(m) =>
    /\ m.from = i /\ i \in live
    /\ \E r \in wire : /\ r.kind = "RequestVote" /\ r.from = m.to
                       /\ r.term = m.term /\ UpToDate(i, r)

\* sends its commit index,
SendsCommit(i) ==
  \A m \in wire' \ wire : IsAppend(m) =>
    m.from = i /\ m.leader_commit = commit_index'[i]

\* commits as a leader what a majority has acknowledged and as a follower what
\* its leader has committed and it has accepted,
Commits(i) ==
  /\ \A j \in Node \ {i} : commit_index'[j] = commit_index[j]
  /\ \/ commit_index'[i] \in {0, commit_index[i]}
     \/ /\ i \in live' /\ role'[i] = Leader
        /\ commit_index'[i] \in Committable(i, term'[i], log'[i], match_index'[i])
     \/ \E a \in wire :
          Takes(i, a) /\ commit_index'[i] = Lower(a.leader_commit, Matched(i, a))

\* and raises a match index to what was acknowledged.
MatchesRaised(i) ==
  i \in live' /\ role'[i] = Leader => \A p \in Node \ {i} :
    \/ match_index'[i][p] = 0
    \/ /\ i \in live /\ role[i] = Leader /\ term'[i] = term[i]
       /\ match_index'[i][p] = match_index[i][p]
    \/ \E m \in wire : /\ IsAck(m) /\ m.from = p /\ m.term = term'[i]
                      /\ match_index'[i][p] <= m.match_index

Replicates(i) ==
  /\ AcksTaken(i) /\ AsksTruly(i) /\ GrantsUpToDate(i)
  /\ SendsCommit(i) /\ Commits(i) /\ MatchesRaised(i)

-----------------------------------------------------------------------------
(* How the logs evolve in a step of node i, with led before it and led2 after *)

\* A log is extended; or it follows a leader, and keeps what it shares with it.
LogKept(led, j) ==
  \/ SamePrefix(disk[j].log, disk'[j].log, Len(disk[j].log))
  \/ /\ led[disk'[j].term] # <<>>
     /\ \A n \in Nat : SamePrefix(disk[j].log, led[disk'[j].term], n) =>
                         SamePrefix(disk'[j].log, led[disk'[j].term], n)

\* The leader of term t has appended to its log.
Grown(led, led2, t) == led2[t] # led[t]

\* Only the log of leader i's term may change, and becomes its log; when it was
\* empty, i is newly elected.
LedKept(led, led2, i) ==
  /\ Extended(led, led2)
  /\ \A t \in Term : Grown(led, led2, t) =>
       /\ t = term'[i] /\ t = disk'[i].term /\ led2[t] = disk'[i].log
       /\ i \in live' /\ role'[i] = Leader
       /\ led[t] = <<>> =>
            /\ SamePrefix(disk[i].log, led2[t], Len(disk[i].log))
            /\ StandsFor(i, t) \/ t > disk[i].term

\* A candidate has the log it had.
CandidateKept(i) ==
  i \in live' /\ role'[i] = Candidate =>
    /\ disk'[i].log = disk[i].log
    /\ StandsFor(i, term'[i]) \/ term'[i] > disk[i].term

Evolves(led, led2, i) ==
  /\ \A j \in Node : LogKept(led, j)
  /\ LedKept(led, led2, i)
  /\ CandidateKept(i)

\* A step that starts where the invariants hold.
StepFrom(led, led2, i) ==
  /\ ElectionInv /\ ElectionInv'
  /\ LogInv(led) /\ LogInv(led2)'
  /\ CommitInv(led)
  /\ LocalStep(i) /\ Replicates(i) /\ Evolves(led, led2, i)

=============================================================================
