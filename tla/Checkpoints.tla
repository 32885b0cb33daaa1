---------------------------- MODULE Checkpoints -----------------------------
(***************************************************************************)
(* Saved checkpoints of the projects of a user, src/continuity/checkpoint   *)
(* and toche checkpoint save, show, list and delete.  A save reads the git  *)
(* head, then the files it watches, then writes its row, while the project  *)
(* is worked on.  The facts in a checkpoint are in AnswerPath.              *)
(*                                                                          *)
(* The tree of a project counts its commits, the edits of the five watched  *)
(* files and those of all others.                                           *)
(***************************************************************************)
EXTENDS Integers, FiniteSetsExt

CONSTANTS
  Savers,             \* the runs of toche checkpoint save
  Projects,
  CheckpointScenes,   \* sets of what may happen: "edit", "delete", "nogit"
  MaxWork             \* how often the projects are edited

ASSUME CheckpointAssumption == IsFiniteSet(Savers)

VARIABLES
  desk,               \* [may, tree, saved] of a user, or <<>> in the behaviours of another part
  saving              \* the saves: [at, project, head, watched]

Untouched == [head |-> 1, watched |-> 0, others |-> 0]
NoGit == 0            \* git_head is empty

DeskInit ==
  /\ desk \in {[may |-> may, tree |-> [p \in Projects |-> Untouched], saved |-> {}] : may \in CheckpointScenes}
  /\ saving \in [Savers -> {[at |-> "off", project |-> p, head |-> NoGit, watched |-> 0] : p \in Projects}]

DeskIdle == desk = <<>> /\ saving = <<>>

Saver(s, place) == desk # <<>> /\ saving[s].at = place

\* insert() of CheckpointDb reads these one after the other.
ReadHead(s) ==
  /\ Saver(s, "off")
  /\ \/ saving' = [saving EXCEPT ![s].at = "watched", ![s].head = desk.tree[saving[s].project].head]
     \/ /\ "nogit" \in desk.may
        /\ saving' = [saving EXCEPT ![s].at = "watched", ![s].head = NoGit]
  /\ UNCHANGED desk

ReadWatched(s) ==
  /\ Saver(s, "watched")
  /\ saving' = [saving EXCEPT ![s].at = "insert", ![s].watched = desk.tree[saving[s].project].watched]
  /\ UNCHANGED desk

Ids == {c.id : c \in desk.saved}

\* Mutant of NewId: the smallest that is free.
FreeId == Min((1..(Cardinality(Ids) + 1)) \ Ids)

\* INTEGER PRIMARY KEY without AUTOINCREMENT: a deleted highest id comes again.
NewId == 1 + Max({0} \cup Ids)

\* then, nth: the tree and the row's place in time, which are not stored.
InsertCheckpoint(s) ==
  /\ Saver(s, "insert")
  /\ desk' = [desk EXCEPT !.saved = @ \cup
                {[id |-> NewId, project |-> saving[s].project, head |-> saving[s].head,
                  watched |-> saving[s].watched, then |-> desk.tree[saving[s].project],
                  nth |-> Cardinality({t \in Savers : saving[t].at = "saved"})]}]
  /\ saving' = [saving EXCEPT ![s].at = "saved"]

\* By its id alone, from any project.
DeleteCheckpoint ==
  /\ desk # <<>>
  /\ "delete" \in desk.may
  /\ \E c \in desk.saved : desk' = [desk EXCEPT !.saved = @ \ {c}]
  /\ UNCHANGED saving

Work(t) == t.head - 1 + t.watched + t.others

\* The user commits, switches the branch (.git/HEAD is watched), or edits.
EditProject ==
  /\ desk # <<>>
  /\ "edit" \in desk.may
  /\ \E p \in Projects :
       LET t == desk.tree[p]
       IN /\ MapThenSumSet(LAMBDA q : Work(desk.tree[q]), Projects) < MaxWork
          /\ \E new \in {[t EXCEPT !.head = @ + 1], [t EXCEPT !.head = @ + 1, !.watched = @ + 1],
                         [t EXCEPT !.watched = @ + 1], [t EXCEPT !.others = @ + 1]} :
               desk' = [desk EXCEPT !.tree[p] = new]
  /\ UNCHANGED saving
-----------------------------------------------------------------------------
OfProject(p) == {c \in desk.saved : c.project = p}

\* What toche checkpoint show takes without an id, and the first of list.
Latest(p) == CHOOSE c \in OfProject(p) : \A d \in OfProject(p) : c.id >= d.id

\* A head that is missing, then or now, fits every other.
Stale(c, head, watched) == (c.head # head /\ NoGit \notin {c.head, head}) \/ c.watched # watched

StaleNow(c) == Stale(c, desk.tree[c.project].head, desk.tree[c.project].watched)

(***************************************************************************)
(* The checkpoint that is shown for a project is the one saved last of      *)
(* those that are left (checkpoint.rs:146), however saves overlap and ids   *)
(* come again after a delete, and one that is not shown as stale            *)
(* (cli/checkpoint.rs:103) was saved on the commit and the watched files    *)
(* that are there now, also when the user worked on during the save.  Where *)
(* git answers; other files are not watched.                                *)
(***************************************************************************)
LatestIsCurrent ==
  desk # <<>> =>
    \A c \in desk.saved :
      /\ Latest(c.project).nth >= c.nth
      /\ (c.head # NoGit /\ ~StaleNow(c)) =>
           /\ c.then.head = desk.tree[c.project].head
           /\ c.then.watched = desk.tree[c.project].watched

\* "Resume rejects or marks stale facts after conflicting workspace changes"
\* (TOCHE_CONSOLIDATED_PLAN.md:330): refuted, by an edit of any other file.
EveryEditIsMarked ==
  desk # <<>> =>
    \A c \in desk.saved : ~StaleNow(c) => c.then = desk.tree[c.project]
=============================================================================
