----------------------------- MODULE SerialSync -----------------------------
(***************************************************************************)
(* What the application can rely on of SyncEngine's full synchronisations: *)
(* one session at a time; the content is that of one session, and of a     *)
(* later one with each commit; a session that gave up commits no more.     *)
(*                                                                         *)
(* It promises less than the comment on syncAll ("no DB writes" before the *)
(* commit, "if any API call fails, no data is written"): a session writes  *)
(* its courses while it fetches, they stay when it gives up, and what it   *)
(* commits is what it has got.                                             *)
(***************************************************************************)
EXTENDS Integers

CONSTANT NSessions

VARIABLES
  session,         (* the session that is open, 0 when there is none        *)
  courses,         (* the session that wrote the courses, 0 for nobody      *)
  content          (* the session that wrote all else, 0 for nobody         *)

Sessions == 1..NSessions

Init == session = 0 /\ courses = 0 /\ content = 0

Open(s) ==
  /\ session = 0 /\ s > courses /\ s > content
  /\ session' = s /\ UNCHANGED <<courses, content>>

WriteCourses ==
  /\ session # 0
  /\ courses' = session /\ UNCHANGED <<session, content>>

Commit ==
  /\ session # 0
  /\ session' = 0 /\ courses' = session /\ content' = session

GiveUp ==
  /\ session # 0
  /\ session' = 0 /\ courses' \in {courses, session} /\ UNCHANGED content

Wipe == courses' = 0 /\ content' = 0 /\ UNCHANGED session

Next == (\E s \in Sessions : Open(s)) \/ WriteCourses \/ Commit \/ GiveUp \/ Wipe

Spec == Init /\ [][Next]_<<session, courses, content>>
=============================================================================
