------------------------------- MODULE MCPhones -------------------------------
(***************************************************************************)
(* An instance of FlutterSession and SwiftSession for TLC: one phone, which *)
(* runs the one application or the other, and the backend.  What both have  *)
(* is one variable, what only one has keeps its first value in the other.   *)
(***************************************************************************)
EXTENDS FlutterSession

CONSTANT SwiftSignIns  \* the form of the Swift application

VARIABLES
  phone,                                   \* "flutter" or "swift"
  header, inFlight, isBootstrapping, kept  \* of SwiftSession

Swift == INSTANCE SwiftSession WITH SignIns <- SwiftSignIns

ASSUME SwiftInstance == Swift!SwiftConstants

ofFlutter == <<token, refreshing, loading>>
ofSwift   == <<header, inFlight, isBootstrapping, kept>>
phoneVars == <<vars, ofSwift, phone>>

PhoneInit ==
  \/ /\ phone = "flutter" /\ Init
     /\ header = None /\ inFlight = Swift!NoneInFlight
     /\ isBootstrapping = TRUE /\ kept = FALSE
  \/ /\ phone = "swift" /\ Swift!Init
     /\ token = None /\ refreshing = NoRefresh /\ loading = TRUE

OnFlutter(A) == phone = "flutter" /\ A /\ UNCHANGED <<ofSwift, phone>>
OnSwift(A)   == phone = "swift" /\ A /\ UNCHANGED <<ofFlutter, phone>>

PhoneWorks == OnFlutter(Works) \/ OnSwift(Swift!Works)
PhoneAsks  == OnFlutter(Asks) \/ OnSwift(Swift!Asks)
PhoneNext  == OnFlutter(Next) \/ OnSwift(Swift!Next)

\* Every call and every use of the storage ends, and the event loop of the one
\* and both actors of the other run what is ready.
PhoneSpec == PhoneInit /\ [][PhoneNext]_phoneVars /\ WF_phoneVars(PhoneWorks)

-----------------------------------------------------------------------------
\* OneSession of the application that runs.
OneSessionOnPhone == IF phone = "flutter" THEN OneSession ELSE Swift!OneSession

\* Unless something is asked for again and again, the application comes to rest.
PhoneRests ==
  []<><<PhoneAsks>>_phoneVars \/ []<>(IF phone = "flutter" THEN AtRest ELSE Swift!AtRest)

=============================================================================
