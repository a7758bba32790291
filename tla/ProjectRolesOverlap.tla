------------------------ MODULE ProjectRolesOverlap -------------------------
(***************************************************************************)
(* ProjectRoles with one variable more, which remembers the requests in    *)
(* flight during which the leads of the project have changed.  It is not   *)
(* in the code and decides nothing.  A handler authorises its caller and   *)
(* counts the leads before it writes; the variable says whose answers may  *)
(* be out of date, so that what all the others do can be stated.           *)
(***************************************************************************)
EXTENDS ProjectRoles

VARIABLE overtaken  \* slots whose request has read another set of leads

OverlapInit == Init /\ overtaken = {}

OverlapNext ==
  /\ Next
  /\ overtaken' =
       {t \in Slots :
          /\ req'[t] # NoRequest
          /\ \/ t \in overtaken
             \/ ~Idle(t) /\ LeadsOf(roles') # LeadsOf(roles)}

OverlapSpec == OverlapInit /\ [][OverlapNext]_<<vars, overtaken>>

-----------------------------------------------------------------------------

Roster == INSTANCE Roster WITH rows <- roles

(* Whatever overlaps, the rows and the project change by one operation of    *)
(* the roster, which the caller of the request that ends with it may take    *)
(* then; only a request during which the leads have changed does otherwise.  *)
RosterUnlessOvertaken ==
  /\ Roster!Init
  /\ [][\/ Roster!Delete
        \/ \E s \in Slots :
             /\ req[s] # NoRequest /\ req'[s] = NoRequest
             /\ s \in overtaken \/ Roster!Does(req[s].by)]_(Roster!roster)

=============================================================================
