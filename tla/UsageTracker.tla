---------------------------- MODULE UsageTracker ----------------------------
(***************************************************************************)
(* The monthly limit on calls of the embedding API                         *)
(* (core/src/usage_tracker.rs).  Every batch sent to the API first passes  *)
(* check_and_increment, which loads usage.json, counts the call and        *)
(* replaces the file by way of usage.json.tmp.  Nothing is locked: each    *)
(* system call is a step, and the processes that embed (chart, the watch   *)
(* daemon, the MCP server) share both names.                               *)
(*                                                                         *)
(* A name leads to an inode and an open file is an inode: a file opened    *)
(* under one name is written to after it got another.                      *)
(***************************************************************************)
EXTENDS Integers

CONSTANTS
  Proc,         \* processes that call the API
  MonthlyLimit, \* monthly_limit
  LastMonth,    \* months the run lasts, for TLC
  Inode,        \* enough of them for both names and every open file
  Absent,       \* "no such name", "no call in progress"
  Failures      \* whether writing the file can fail

Month == 1 .. LastMonth
Usage == [month : Month, count : Nat, history : [Month -> Nat]]

ASSUME TrackerAssumption ==
  /\ MonthlyLimit \in Nat /\ LastMonth \in Nat \ {0}
  /\ Absent \notin Inode \cup Usage
  /\ Failures \in BOOLEAN

VARIABLES
  thisMonth,    \* what current_month_str says
  content,      \* inode -> Usage, or None for a file that does not parse
  json,         \* usage.json: an inode or None
  tmp,          \* usage.json.tmp: an inode or None
  call,         \* process -> [stage, data, fd] or None
  admitted,     \* history: month -> calls let through since the last reset
  uncounted     \* history: those of them whose count was not written

trackerVars == <<thisMonth, content, json, tmp, call, admitted, uncounted>>

Zero == [m \in Month |-> 0]
Fresh(m) == [month |-> m, count |-> 0, history |-> Zero]

TrackerInit ==
  /\ thisMonth = 1
  /\ content = [i \in Inode |-> Absent]
  /\ json = Absent /\ tmp = Absent
  /\ call = [p \in Proc |-> Absent]
  /\ admitted = Zero /\ uncounted = Zero

-----------------------------------------------------------------------------
InCall(p, stage) == call[p] # Absent /\ call[p].stage = stage
SetCall(p, c) == call' = [call EXCEPT ![p] = c]
(* The call of p is added if it is one of check_and_increment.             *)
WithCall(calls, p) ==
  IF call[p].counts
  THEN [calls EXCEPT ![call[p].data.month] = @ + 1]
  ELSE calls

NextMonth ==
  /\ thisMonth < LastMonth
  /\ thisMonth' = thisMonth + 1
  /\ UNCHANGED <<content, json, tmp, call, admitted, uncounted>>

(* Mutant: the file is never read back. *)
LoadedFresh == Fresh(thisMonth)

(* A file that is absent, unreadable or does not parse counts as no calls  *)
(* and no history.                                                         *)
Loaded == IF json = Absent \/ content[json] = Absent
          THEN Fresh(thisMonth) ELSE content[json]

(* Mutant: the count of the old month is not kept. *)
RolledOverForgetful(u) ==
  IF u.month = thisMonth THEN u
  ELSE [month |-> thisMonth, count |-> 0, history |-> u.history]

(* A new month, or an old one, closes the month of the file.               *)
RolledOver(u) ==
  IF u.month = thisMonth THEN u
  ELSE [month |-> thisMonth, count |-> 0,
        history |-> [u.history EXCEPT ![u.month] = u.count]]

Allowed(u) == u.count < MonthlyLimit

(* check_and_increment up to the write; over the limit it ends here.       *)
Load(p) ==
  /\ call[p] = Absent
  /\ LET u == RolledOver(Loaded) IN
       /\ Allowed(u)
       /\ SetCall(p, [stage |-> "open", fd |-> Absent,
                      data |-> [u EXCEPT !.count = @ + 1], counts |-> TRUE])
  /\ UNCHANGED <<thisMonth, content, json, tmp, admitted, uncounted>>

(* reset: remove_file, then write_usage of an empty month                  *)
Reset(p) ==
  /\ call[p] = Absent
  /\ json' = Absent
  /\ SetCall(p, [stage |-> "open", fd |-> Absent,
                 data |-> Fresh(thisMonth), counts |-> FALSE])
  /\ admitted' = Zero /\ uncounted' = Zero
  /\ UNCHANGED <<thisMonth, content, tmp>>

Free(i) == i \notin {json, tmp} /\ \A p \in Proc : call[p] # Absent => call[p].fd # i

(* std::fs::write, first half: open the name, truncating or creating it    *)
OpenTmp(p) ==
  /\ InCall(p, "open")
  /\ \E i \in IF tmp # Absent THEN {tmp} ELSE {j \in Inode : Free(j)} :
       /\ tmp' = i
       /\ content' = [content EXCEPT ![i] = Absent]
       /\ SetCall(p, [call[p] EXCEPT !.stage = "write", !.fd = i])
  /\ UNCHANGED <<thisMonth, json, admitted, uncounted>>

(* second half: the bytes *)
WriteTmp(p) ==
  /\ InCall(p, "write")
  /\ content' = [content EXCEPT ![call[p].fd] = call[p].data]
  /\ SetCall(p, [call[p] EXCEPT !.stage = "rename", !.fd = Absent])
  /\ UNCHANGED <<thisMonth, json, tmp, admitted, uncounted>>

(* rename replaces usage.json; another process may have moved tmp away,    *)
(* and the call is let through all the same.                               *)
Rename(p) ==
  /\ InCall(p, "rename")
  /\ IF tmp # Absent THEN json' = tmp /\ tmp' = Absent ELSE UNCHANGED <<json, tmp>>
  /\ admitted' = WithCall(admitted, p)
  /\ SetCall(p, Absent)
  /\ UNCHANGED <<thisMonth, content, uncounted>>

(* "Failed to write usage.json": logged, and the call is let through.      *)
WriteFails(p) ==
  /\ Failures
  /\ InCall(p, "open") \/ InCall(p, "write") \/ InCall(p, "rename")
  /\ admitted' = WithCall(admitted, p)
  /\ uncounted' = WithCall(uncounted, p)
  /\ SetCall(p, Absent)
  /\ UNCHANGED <<thisMonth, content, json, tmp>>

Crash(p) ==
  /\ call[p] # Absent
  /\ SetCall(p, Absent)
  /\ UNCHANGED <<thisMonth, content, json, tmp, admitted, uncounted>>

TrackerNext ==
  \/ NextMonth
  \/ \E p \in Proc :
       \/ Load(p) \/ OpenTmp(p) \/ WriteTmp(p) \/ Rename(p)
       \/ Reset(p) \/ WriteFails(p) \/ Crash(p)

TrackerSpec == TrackerInit /\ [][TrackerNext]_trackerVars

-----------------------------------------------------------------------------
(* Type invariant, a part of AdmittedAreCounted.                           *)
TrackerTypeOK ==
  /\ thisMonth \in Month
  /\ content \in [Inode -> Usage \cup {Absent}]
  /\ json \in Inode \cup {Absent}
  /\ tmp \in Inode \cup {Absent}
  /\ call \in [Proc -> [stage : {"open", "write", "rename"},
                        data : Usage, fd : Inode \cup {Absent},
                        counts : BOOLEAN] \cup {Absent}]
  /\ \A p \in Proc : InCall(p, "write") => call[p].fd \in Inode
  /\ admitted \in [Month -> Nat]
  /\ uncounted \in [Month -> Nat]

(* "check_and_increment() atomically checks limit and increments counter"  *)
(* (ref/core.md): in no month are more calls let through than the limit,   *)
(* but for those that were let through although their count was lost.      *)
LimitHolds == \A m \in Month : admitted[m] <= MonthlyLimit + uncounted[m]

(* usage.json parses at every moment, whatever crashes in the middle of    *)
(* replacing it: the write goes to another file and the rename is atomic.  *)
(* A file that does not parse counts as no calls and loses the history.    *)
(* Whenever no call is in flight, those let through are in the file, those *)
(* of past months in its history: the count survives months and crashes.   *)
AdmittedAreCounted ==
  /\ TrackerTypeOK
  /\ json # Absent => content[json] # Absent
  /\ (\A p \in Proc : call[p] = Absent) =>
    \A m \in Month : admitted[m] > uncounted[m] =>
      /\ json # Absent
      /\ admitted[m] - uncounted[m] <= IF content[json].month = m
                                       THEN content[json].count
                                       ELSE content[json].history[m]

(* One process implements the limit: a step of its files is no step of the *)
(* count until the call is let through, and then one call more.            *)
Counted == INSTANCE UsageLimit
             WITH Limit <- MonthlyLimit, Months <- LastMonth, month <- thisMonth,
                  counted <- [m \in Month |-> admitted[m] - uncounted[m]]
ImplementsLimit == Counted!UsageSpec
=============================================================================
