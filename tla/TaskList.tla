------------------------------ MODULE TaskList ------------------------------
(***************************************************************************)
(* `shiotsuchi tasks [keyword] [--all]` (cli/src/commands/tasks.rs): which *)
(* rows of the table tasks it shows, and in which order (query_tasks of    *)
(* core/src/db.rs).                                                        *)
(*                                                                         *)
(* A content and a keyword are sequences of characters.                    *)
(***************************************************************************)
EXTENDS Naturals, SequencesExt, FiniteSetsExt

CONSTANT Small   \* ASCII capital letter -> its small one

Fold(c) == IF c \in DOMAIN Small THEN Small[c] ELSE c

(* LIKE of SQLite: % is any text, _ any character, and of the letters only *)
(* those of ASCII are compared without their case.                         *)
Like(content, pattern) ==
  LET Step(from, c) ==
        IF c = "%" THEN Min(from) .. Len(content)
        ELSE {i + 1 : i \in {j \in from : /\ j < Len(content)
                                          /\ \/ c = "_"
                                             \/ Fold(content[j + 1]) = Fold(c)}}
  IN  \E reach \in {FoldLeft(LAMBDA from, c : IF from = {} THEN {} ELSE Step(from, c),
                             {0}, pattern)} : Len(content) \in reach

ListedBefore(t, u) ==
  \/ t.file < u.file
  \/ t.file = u.file /\ t.line < u.line

Listed(tasks) ==
  [k \in 1 .. Cardinality(tasks) |->
     CHOOSE t \in tasks : Cardinality({u \in tasks : ListedBefore(u, t)}) = k - 1]

(* query_tasks_inner: ORDER BY vault_name, file_path, line_number; without *)
(* a keyword, or with an empty one, all of them.                           *)
QueryTasks(tasks, keyword, all) ==
  Listed({t \in tasks : /\ all \/ ~ t.checked
                        /\ \/ keyword = <<>>
                           \/ Like(t.content, <<"%">> \o keyword \o <<"%">>)})

(* No task is missed that has the keyword in it, whatever characters that  *)
(* is made of; one without % and _ finds no other; and the open tasks come *)
(* in the order they have among all.                                       *)
TasksAreFound(tasks, keyword) ==
  LET folded(text) == [i \in DOMAIN text |-> Fold(text[i])]
      has(t) == \E i \in 0 .. Len(t.content) - Len(keyword) :
                   SubSeq(folded(t.content), i + 1, i + Len(keyword)) = folded(keyword)
  IN  \A list \in {QueryTasks(tasks, keyword, TRUE)} :
        /\ {t \in tasks : has(t)} \subseteq ToSet(list)
        /\ ToSet(keyword) \cap {"%", "_"} = {} => \A t \in ToSet(list) : has(t)
        /\ QueryTasks(tasks, keyword, FALSE) = SelectSeq(list, LAMBDA t : ~ t.checked)
=============================================================================
