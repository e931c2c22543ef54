------------------------------ MODULE ExportOffer ------------------------------
(***************************************************************************)
(* What an export promises to whoever requested it: it offers nothing, or  *)
(* a file with the results its task had at some moment, and what it offers *)
(* next is no older.  A download that is let in brings the file the export *)
(* described then, unless the export was withdrawn and made again before   *)
(* the file was read: then a newer one or none that is whole, and never    *)
(* an older one.                                                           *)
(***************************************************************************)
EXTENDS Naturals

CONSTANTS Exports,      (* the exports requested                             *)
          Changes,      (* bound on the changes of their task's results      *)
          Downloads     (* places for downloads of each export               *)

VARIABLES edition,      (* changes of the results so far                     *)
          offered,      (* offered[x]: the edition in the file that can be   *)
                        (* downloaded, None when there is none               *)
          described,    (* described[x]: the edition x last described        *)
          download      (* download[x][d]: the edition described when it was *)
                        (* let in, whether the file stayed as it was since,  *)
                        (* and what was got                                  *)

None == Changes + 1

NoDownload == [pc |-> "idle", checked |-> 0, steady |-> TRUE, got |-> None]

EInit ==
    /\ edition = 0
    /\ offered = [x \in Exports |-> None]
    /\ described = [x \in Exports |-> 0]
    /\ download = [x \in Exports |-> [d \in Downloads |-> NoDownload]]

Change == edition' = edition + 1 /\ UNCHANGED <<offered, described, download>>

Publish(x) ==
    \E n \in described[x]..edition :
        /\ offered' = [offered EXCEPT ![x] = n]
        /\ described' = [described EXCEPT ![x] = n]
        /\ UNCHANGED <<edition, download>>

Withdraw(x) ==
    /\ offered' = [offered EXCEPT ![x] = None]
    /\ UNCHANGED <<edition, described, download>>

(* Only while nothing is offered does the file change. *)
MakeAgain(x) ==
    /\ offered[x] = None
    /\ download' = [download EXCEPT ![x] =
                      [d \in Downloads |-> [download[x][d] EXCEPT !.steady = FALSE]]]
    /\ UNCHANGED <<edition, offered, described>>

LetIn(x, d) ==
    /\ offered[x] # None
    /\ download' = [download EXCEPT ![x][d] =
                      [pc |-> "read", checked |-> offered[x], steady |-> TRUE, got |-> None]]
    /\ UNCHANGED <<edition, offered, described>>

Deliver(x, d) ==
    /\ download[x][d].pc = "read"
    /\ \E n \in download[x][d].checked..edition \cup {None} :
          /\ download[x][d].steady => n = download[x][d].checked
          /\ download' = [download EXCEPT ![x][d].pc = "got", ![x][d].got = n]
    /\ UNCHANGED <<edition, offered, described>>

(* Downloads that fail, or are lost with the process. *)
BreakOff ==
    /\ \E lost \in SUBSET (Exports \X Downloads) :
          download' = [x \in Exports |-> [d \in Downloads |->
                          IF <<x, d>> \in lost THEN NoDownload ELSE download[x][d]]]
    /\ UNCHANGED <<edition, offered, described>>

ENext ==
    \/ Change \/ BreakOff
    \/ \E x \in Exports :
          \/ Publish(x) \/ Withdraw(x) \/ MakeAgain(x)
          \/ \E d \in Downloads : LetIn(x, d) \/ Deliver(x, d)

ESpec == EInit /\ [][ENext]_<<edition, offered, described, download>>
=============================================================================
