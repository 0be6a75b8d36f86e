--------------------------- MODULE FtpCallsProofs ---------------------------
(* Theorems about the two ways to call an FTP server: the single-server     *)
(* client, for any calls made one after another, and a fleet call of list,  *)
(* size, upload or mkdir, for any fleet, pool, timeout and budget, both of  *)
(* them made directly or over HTTP.                                         *)
EXTENDS FtpClient, FleetWork, FleetEngineProofs

(****************************** FtpClient **********************************)

Guarded == {"put", "overwrite", "replace"}
Over == {"idle", "done"}

\* Which operation sends a command.
OpSends(c) ==
  /\ pc[c] = "idle" <=> op[c] = "none"
  /\ pc[c] \in {"check", "recheck"} => op[c] = "put"
  /\ pc[c] \in {"size", "rntoOnly"} => op[c] = "overwrite"
  /\ pc[c] = "dele" => op[c] \in {"overwrite", "remove"}
  /\ pc[c] \in {"stor", "storing"} => op[c] \in Guarded \cup {"upload"}
  /\ pc[c] \in {"rnto", "drop"} => op[c] \in Guarded
  /\ pc[c] \in {"read", "reading"} => op[c] = "read"
  /\ pc[c] \in {"mkd", "pwd", "cwd", "back"} => op[c] = "mkdir"

\* There is a temporary file from STOR to the rename, whole once STOR has
\* ended; after the call it is named; after its own DELE it is the only copy.
TempKept(c) ==
  /\ pc[c] \in {"idle", "login", "check", "stor"} \/ op[c] \notin Guarded =>
       temp[c] = "none"
  /\ pc[c] \in {"recheck", "size", "rnto", "rntoOnly"} => temp[c] = "whole"
  /\ pc[c] = "dele" /\ op[c] = "overwrite" => temp[c] = "whole"
  /\ pc[c] = "done" /\ err[c] # "none" /\ temp[c] # "none" => named[c]
  /\ gone[c] => pc[c] \in {"rntoOnly", "done"} /\ (landed[c] \/ temp[c] = "whole")

\* What an outcome says of the file.
ErrTells(c) ==
  /\ landed[c] => pc[c] \in {"drop", "done"}
  /\ pc[c] = "drop" => /\ err[c] \in {"failed", "exists", "garbled"}
                       /\ err[c] # "garbled" => ~landed[c]
  /\ pc[c] = "done" /\ err[c] = "ok" /\ op[c] \in Guarded \cup {"upload"} => landed[c]
  /\ pc[c] = "done" /\ err[c] \in {"exists", "failed"} /\ op[c] \in Guarded => ~landed[c]

SessionStays(c) ==
  /\ pc[c] \in {"check", "stor", "recheck", "size", "dele", "rnto", "rntoOnly",
                "mkd", "pwd", "cwd", "read"} => sess[c] \in {"home", "broken"}
  /\ pc[c] = "drop" => sess[c] \in {"home", "broken", "closed"}
  /\ pc[c] = "done" => \/ sess[c] \in {"home", "broken", "closed"}
                       \/ op[c] = "read" /\ err[c] = "garbled"

\* What the caller saw is how the call ended, or that it was given up.
ToldTruly(c) ==
  /\ told[c] \in {"none", "proxyerror"} \/ (pc[c] = "done" /\ told[c] = err[c])
  /\ pc[c] = "idle" => told[c] = "none"
  /\ told[c] = "proxyerror" => via = "proxy"
  /\ via = "direct" /\ pc[c] = "done" => told[c] # "none"

CallInv(c) ==
  /\ OpSends(c) /\ TempKept(c) /\ ErrTells(c) /\ SessionStays(c) /\ ToldTruly(c)

\* The caller waits for one call at most.
OneAwaited == \A c, d \in Calls :
  op[c] # "none" /\ op[d] # "none" /\ told[c] = "none" /\ told[d] = "none" => c = d

\* Between put's last look and its rename nobody stores, unless given up.
PutAlone == \A c \in Calls :
  op[c] = "put" /\ pc[c] = "rnto" =>
    target = Absent \/ \E d \in Calls : told[d] = "proxyerror"

ClientInv ==
  TypeOK /\ (\A c \in Calls : CallInv(c)) /\ OneAwaited /\ PutAlone

LEMMA ClientInitInv == Init => ClientInv
BY ClientAssumption DEF Init, ClientInv, TypeOK, CallInv, OpSends, TempKept, ErrTells, SessionStays,
  ToldTruly, OneAwaited, PutAlone, Contents, Steps, Sessions, Ops, Outcomes, Guarded

\* A step of a call leaves the others where they are.
Untouched(d) ==
  /\ op'[d] = op[d] /\ pc'[d] = pc[d] /\ sess'[d] = sess[d] /\ temp'[d] = temp[d]
  /\ named'[d] = named[d] /\ err'[d] = err[d] /\ told'[d] = told[d]
  /\ landed'[d] = landed[d] /\ gone'[d] = gone[d] /\ via' = via

Kept(c) == TypeOK' /\ CallInv(c)' /\ \A d \in Calls \ {c} : Untouched(d)

\* The three ways a command leaves its call.
EndTypes ==
  /\ pc \in [Calls -> Steps]
  /\ sess \in [Calls -> Sessions]
  /\ named \in [Calls -> BOOLEAN]
  /\ err \in [Calls -> Outcomes \cup {"none"}]
  /\ told \in [Calls -> Outcomes \cup {"none", "proxyerror"}]

LEMMA MoveTypes ==
  ASSUME TypeOK, NEW c \in Calls, NEW s \in Sessions
  PROVE  /\ \A p \in Steps : GoOn(c, p, s) => EndTypes'
         /\ \A o \in Outcomes, n \in BOOLEAN : Finish(c, o, s, n) => EndTypes'
         /\ \A o \in Outcomes : Unwind(c, o, s) => EndTypes'
<1>1. ASSUME NEW p \in Steps, GoOn(c, p, s) PROVE EndTypes'
  BY <1>1 DEF TypeOK, EndTypes, GoOn
<1>2. ASSUME NEW o \in Outcomes, NEW n \in BOOLEAN, Finish(c, o, s, n) PROVE EndTypes'
  <2>1. told' \in [Calls -> Outcomes \cup {"none", "proxyerror"}]
    BY <1>2 DEF TypeOK, Finish
  <2>2. sess' \in [Calls -> Sessions] /\ pc' \in [Calls -> Steps]
    BY <1>2 DEF TypeOK, Finish, Steps, Sessions
  <2> QED
    BY <1>2, <2>1, <2>2 DEF TypeOK, EndTypes, Finish
<1>3. ASSUME NEW o \in Outcomes, Unwind(c, o, s) PROVE EndTypes'
  BY <1>3 DEF TypeOK, EndTypes, Unwind, Steps
<1> QED
  BY <1>1, <1>2, <1>3

LEMMA CallerKeeps ==
  ASSUME TypeOK, NEW c \in Calls, CallInv(c), Call(c) \/ Answer(c) \/ GiveUp(c) \/ WorkerDies(c)
  PROVE  Kept(c)
<1> USE DEF TypeOK, CallInv
<1> USE DEF caller, file, Call, Answer, GiveUp, WorkerDies
<1>1. TypeOK'
  <2>1. EndTypes'
    BY MoveTypes DEF EndTypes, Outcomes, Sessions, Steps
  <2>2. op' \in [Calls -> Ops \cup {"none"}] /\ left' \in [Calls -> 0..Depth]
    BY ClientAssumption DEF GoOn, Finish
  <2>3. target' \in Contents /\ temp' \in [Calls -> {"none", "part", "whole"}]
    BY DEF Contents
  <2>4. landed' \in [Calls -> BOOLEAN] /\ gone' \in [Calls -> BOOLEAN]
    OBVIOUS
  <2> QED
    BY <2>1, <2>2, <2>3, <2>4 DEF EndTypes, GoOn, Finish
<1> USE DEF GoOn, Finish, Unwind, OpSends, Guarded
<1>2. OpSends(c)'
  BY DEF Ops
<1>3. TempKept(c)'
  BY DEF TempKept
<1>4. ErrTells(c)'
  BY DEF ErrTells
<1>5. SessionStays(c)'
  BY DEF SessionStays
<1>6. ToldTruly(c)'
  BY DEF ToldTruly, ErrTells, Outcomes
<1>7. \A d \in Calls \ {c} : Untouched(d)
  BY DEF Untouched
<1> QED
  BY <1>1, <1>2, <1>3, <1>4, <1>5, <1>6, <1>7 DEF Kept

LoginDoes(c) ==
  /\ UNCHANGED <<via, op, temp, target, landed, gone>> /\ pc[c] = "login"
  /\ op[c] # "none"
  /\ left' \in [Calls -> 0..Depth]
  /\ \/ /\ \/ op[c] \in {"upload", "overwrite", "replace"} /\ GoOn(c, "stor", "home")
           \/ op[c] = "put" /\ GoOn(c, "check", "home")
           \/ op[c] = "remove" /\ GoOn(c, "dele", "home") 
           \/ op[c] = "read" /\ GoOn(c, "read", "home")
           \/ op[c] = "mkdir" /\ GoOn(c, "mkd", "home")
           \/ op[c] = "mkdir" /\ GoOn(c, "pwd", "home")
     \/ Finish(c, "failed", "closed", FALSE)

LEMMA LoginEffect ==
  ASSUME TypeOK, NEW c \in Calls, CallInv(c), Login(c)
  PROVE  LoginDoes(c)
<1> USE DEF TypeOK, CallInv, LoginDoes
<1>1. op[c] \in Ops
  BY DEF Login, OpSends
<1>2. /\ op[c] \in {"upload", "overwrite", "replace"} => FirstStep(op[c]) = {"stor"}
      /\ op[c] = "put" => FirstStep(op[c]) = {"check"}
      /\ op[c] = "remove" => FirstStep(op[c]) = {"dele"}
      /\ op[c] = "read" => FirstStep(op[c]) = {"read"}
      /\ op[c] = "mkdir" => FirstStep(op[c]) = {"mkd", "pwd"}
  BY DEF FirstStep
<1>3. /\ UNCHANGED <<via, op, temp, target, landed, gone>> /\ pc[c] = "login"
      /\ left' \in [Calls -> 0..Depth]
  BY DEF Login, caller, file
<1>4. \/ \E p \in FirstStep(op[c]) : GoOn(c, p, "home")
      \/ Finish(c, "failed", "closed", FALSE)
  BY DEF Login
<1> QED
  BY <1>1, <1>2, <1>3, <1>4 DEF Ops

LEMMA LoginKeeps ==
  ASSUME TypeOK, NEW c \in Calls, CallInv(c), Login(c)
  PROVE  Kept(c)
<1> USE DEF TypeOK, CallInv, LoginDoes
<1>0. LoginDoes(c)
  BY LoginEffect
<1>1. TypeOK'
  <2>1. EndTypes'
    BY <1>0, MoveTypes DEF Outcomes, Sessions, Steps
  <2>2. op' \in [Calls -> Ops \cup {"none"}] /\ left' \in [Calls -> 0..Depth]
    BY <1>0
  <2>3. target' \in Contents /\ temp' \in [Calls -> {"none", "part", "whole"}]
    BY <1>0 DEF Contents
  <2>4. landed' \in [Calls -> BOOLEAN] /\ gone' \in [Calls -> BOOLEAN]
    BY <1>0
  <2> QED
    BY <1>0, <2>1, <2>2, <2>3, <2>4 DEF EndTypes, GoOn, Finish, Unwind
<1> USE DEF GoOn, Finish, Unwind, OpSends, Guarded
<1>2. OpSends(c)'
  BY <1>0
<1>3. TempKept(c)'
  BY <1>0 DEF TempKept
<1>4. ErrTells(c)'
  BY <1>0 DEF ErrTells
<1>5. SessionStays(c)'
  BY <1>0 DEF SessionStays
<1>6. ToldTruly(c)'
  BY <1>0 DEF ToldTruly, ErrTells
<1>7. \A d \in Calls \ {c} : Untouched(d)
  BY <1>0 DEF Untouched
<1> QED
  BY <1>1, <1>2, <1>3, <1>4, <1>5, <1>6, <1>7 DEF Kept

ExistsDoes(c) ==
  /\ UNCHANGED <<via, op, left, temp, target, landed, gone>>
  /\ sess[c] \in {"home", "broken"}
  /\ \/ pc[c] = "check" /\ GoOn(c, "stor", sess[c])
     \/ pc[c] \in {"recheck", "size"} /\ GoOn(c, "rnto", sess[c])
     \/ pc[c] = "size" /\ GoOn(c, "dele", sess[c])
     \/ pc[c] = "size" /\ Finish(c, "uncertain", "closed", TRUE)
     \/ \E o \in {"exists", "failed", "garbled"}, s \in {"home", "broken"} :
          \/ pc[c] = "check" /\ Finish(c, o, s, FALSE)
          \/ pc[c] \in {"recheck", "size"} /\ Unwind(c, o, s)

LEMMA ExistsEffect ==
  ASSUME TypeOK, NEW c \in Calls, CallInv(c), Exists(c)
  PROVE  ExistsDoes(c)
<1> USE DEF TypeOK, CallInv, ExistsDoes
<1>1. sess[c] \in {"home", "broken"} /\ UNCHANGED <<via, op, left, temp, target, landed, gone>>
  BY DEF SessionStays, Exists, caller, file
<1>2. \A r \in Ends(c) : /\ After(c, r) \in {"home", "broken"}
                         /\ Error(r) \in {"exists", "failed", "garbled"}
  BY <1>1 DEF After, Error
<1> QED
  BY <1>1, <1>2 DEF Exists

LEMMA ExistsKeeps ==
  ASSUME TypeOK, NEW c \in Calls, CallInv(c), Exists(c)
  PROVE  Kept(c)
<1> USE DEF TypeOK, CallInv, ExistsDoes
<1>0. ExistsDoes(c)
  BY ExistsEffect
<1>1. TypeOK'
  <2>1. EndTypes'
    BY <1>0, MoveTypes DEF Outcomes, Sessions, Steps
  <2>2. op' \in [Calls -> Ops \cup {"none"}] /\ left' \in [Calls -> 0..Depth]
    BY <1>0
  <2>3. target' \in Contents /\ temp' \in [Calls -> {"none", "part", "whole"}]
    BY <1>0 DEF Contents
  <2>4. landed' \in [Calls -> BOOLEAN] /\ gone' \in [Calls -> BOOLEAN]
    BY <1>0
  <2> QED
    BY <1>0, <2>1, <2>2, <2>3, <2>4 DEF EndTypes, GoOn, Finish, Unwind
<1> USE DEF GoOn, Finish, Unwind, OpSends, Guarded
<1>2. OpSends(c)'
  BY <1>0
<1>3. TempKept(c)'
  BY <1>0 DEF TempKept
<1>4. ErrTells(c)'
  BY <1>0 DEF ErrTells
<1>5. SessionStays(c)'
  BY <1>0 DEF SessionStays
<1>6. ToldTruly(c)'
  BY <1>0 DEF ToldTruly, ErrTells
<1>7. \A d \in Calls \ {c} : Untouched(d)
  BY <1>0 DEF Untouched
<1> QED
  BY <1>1, <1>2, <1>3, <1>4, <1>5, <1>6, <1>7 DEF Kept

StorDoes(c) ==
  /\ UNCHANGED <<via, op, left, landed, gone>> /\ pc[c] = "stor"
  /\ \/ /\ GoOn(c, "storing", "mid")
        /\ \/ op[c] = "upload" /\ target' = Half /\ UNCHANGED temp
           \/ /\ op[c] # "upload" /\ UNCHANGED target
              /\ temp' = [temp EXCEPT ![c] = "part"]
     \/ /\ UNCHANGED <<target, temp>>
        /\ \E o \in {"failed", "garbled"}, s \in {"home", "broken"} :
             \/ op[c] = "upload" /\ Finish(c, o, s, FALSE)
             \/ op[c] # "upload" /\ Unwind(c, o, s)

LEMMA StorEffect ==
  ASSUME TypeOK, NEW c \in Calls, CallInv(c), Stor(c)
  PROVE  StorDoes(c)
<1> USE DEF TypeOK, CallInv, StorDoes
<1>1. sess[c] \in {"home", "broken"}
  BY DEF SessionStays, Stor
<1>2. \A r \in Ends(c) : /\ After(c, r) \in {"home", "broken"}
                         /\ Error(r) \in {"failed", "garbled"}
  BY <1>1 DEF After, Error
<1> QED
  BY <1>2 DEF Stor, caller

LEMMA StorKeeps ==
  ASSUME TypeOK, NEW c \in Calls, CallInv(c), Stor(c)
  PROVE  Kept(c)
<1> USE DEF TypeOK, CallInv, StorDoes
<1>0. StorDoes(c)
  BY StorEffect
<1>1. TypeOK'
  <2>1. EndTypes'
    BY <1>0, MoveTypes DEF Outcomes, Sessions, Steps
  <2>2. op' \in [Calls -> Ops \cup {"none"}] /\ left' \in [Calls -> 0..Depth]
    BY <1>0
  <2>3. target' \in Contents /\ temp' \in [Calls -> {"none", "part", "whole"}]
    BY <1>0 DEF Contents
  <2>4. landed' \in [Calls -> BOOLEAN] /\ gone' \in [Calls -> BOOLEAN]
    BY <1>0
  <2> QED
    BY <1>0, <2>1, <2>2, <2>3, <2>4 DEF EndTypes, GoOn, Finish, Unwind
<1> USE DEF GoOn, Finish, Unwind, OpSends, Guarded
<1>2. OpSends(c)'
  BY <1>0
<1>3. TempKept(c)'
  BY <1>0 DEF TempKept
<1>4. ErrTells(c)'
  BY <1>0 DEF ErrTells
<1>5. SessionStays(c)'
  BY <1>0 DEF SessionStays
<1>6. ToldTruly(c)'
  BY <1>0 DEF ToldTruly, ErrTells
<1>7. \A d \in Calls \ {c} : Untouched(d)
  BY <1>0 DEF Untouched
<1> QED
  BY <1>1, <1>2, <1>3, <1>4, <1>5, <1>6, <1>7 DEF Kept

\* A command that may have run.
LEMMA RanIsBoolean == \A r : \A yes \in Ran(r) :
                        yes \in BOOLEAN /\ (r = "ok" => yes) /\ (r = "refused" => ~yes)
BY DEF Ran

LEMMA StoredEffect ==
  ASSUME NEW c \in Calls, NEW yes \in BOOLEAN, Stored(c, yes), TypeOK
  PROVE  /\ UNCHANGED gone
         /\ \/ op[c] = "upload" /\ yes /\ target' = c
               /\ landed' = [landed EXCEPT ![c] = TRUE] /\ UNCHANGED temp
            \/ op[c] = "upload" /\ ~yes /\ UNCHANGED <<target, temp>>
               /\ landed' = [landed EXCEPT ![c] = FALSE]
            \/ op[c] # "upload" /\ yes /\ UNCHANGED <<target, landed>>
               /\ temp' = [temp EXCEPT ![c] = "whole"]
            \/ op[c] # "upload" /\ ~yes /\ UNCHANGED <<target, landed, temp>>
<1>1. CASE yes = TRUE
  BY <1>1 DEF Stored, file
<1>2. CASE yes = FALSE
  BY <1>2 DEF Stored, file, TypeOK
<1> QED
  BY <1>1, <1>2

StorEndsDoes(c) ==
  /\ UNCHANGED <<via, op, left, gone>> /\ pc[c] = "storing"
  /\ \/ /\ op[c] = "upload" /\ target' = c /\ UNCHANGED temp
        /\ landed' = [landed EXCEPT ![c] = TRUE]
        /\ \E o \in {"ok", "failed", "garbled"}, s \in {"home", "broken"} :
             Finish(c, o, s, FALSE)
     \/ /\ op[c] = "upload" /\ UNCHANGED <<target, temp>>
        /\ landed' = [landed EXCEPT ![c] = FALSE]
        /\ \E o \in {"failed", "garbled"}, s \in {"home", "broken"} :
             Finish(c, o, s, FALSE)
     \/ /\ op[c] # "upload" /\ UNCHANGED <<target, landed>>
        /\ temp' = [temp EXCEPT ![c] = "whole"]
        /\ GoOn(c, AfterStor(op[c]), "home")
     \/ /\ op[c] # "upload" /\ UNCHANGED <<target, landed>>
        /\ \E t \in {"none", "part", "whole"} : temp' = [temp EXCEPT ![c] = t]
        /\ \E o \in {"failed", "garbled"}, s \in {"home", "broken", "closed"} :
             Unwind(c, o, s)

LEMMA StorEndsEffect ==
  ASSUME TypeOK, NEW c \in Calls, CallInv(c), StorEnds(c) \/ StorTimesOut(c)
  PROVE  StorEndsDoes(c)
<1> USE DEF TypeOK, CallInv, StorEndsDoes
<1>1. CASE StorEnds(c)
  <2> DEFINE Concluded(r, yes) ==
        /\ Stored(c, yes)
        /\ LET s == IF r = "lost" THEN "broken" ELSE "home"
               o == IF r = "ok" THEN "ok" ELSE Error(r)
           IN IF op[c] = "upload" THEN Finish(c, o, s, FALSE)
              ELSE IF r = "ok" THEN GoOn(c, AfterStor(op[c]), s)
              ELSE Unwind(c, o, s)
  <2>0. PICK r \in {"ok", "refused", "lost", "garbled"} : \E yes \in Ran(r) : Concluded(r, yes)
    BY <1>1 DEF StorEnds
  <2>1. PICK yes \in Ran(r) : Concluded(r, yes)
    BY <2>0
  <2>2. yes \in BOOLEAN /\ (r = "ok" => yes) /\ (r = "refused" => ~yes)
    BY RanIsBoolean
  <2>3. r # "ok" => Error(r) \in {"failed", "garbled"}
    BY DEF Error
  <2>4. pc[c] = "storing" /\ UNCHANGED <<via, op, left>>
    BY <1>1 DEF StorEnds, caller
  <2>5. Stored(c, yes)
    BY <2>1
  <2>6. CASE op[c] = "upload"
    <3>1. \E o \in {"ok", "failed", "garbled"}, s \in {"home", "broken"} :
            (o = "ok" => yes) /\ Finish(c, o, s, FALSE)
      BY <2>1, <2>2, <2>3, <2>6
    <3>2. CASE yes
      BY <2>2, <2>4, <2>5, <2>6, <3>1, <3>2, StoredEffect
    <3>3. CASE ~yes
      <4>1. \E o \in {"failed", "garbled"}, s \in {"home", "broken"} : Finish(c, o, s, FALSE)
        BY <3>1, <3>3
      <4> QED
        BY <2>2, <2>4, <2>5, <2>6, <3>3, <4>1, StoredEffect
    <3> QED
      BY <3>2, <3>3
  <2>7. CASE op[c] # "upload" /\ r = "ok"
    BY <2>1, <2>2, <2>4, <2>5, <2>7, StoredEffect
  <2>8. CASE op[c] # "upload" /\ r # "ok"
    <3>1. \E t \in {"none", "part", "whole"} : temp' = [temp EXCEPT ![c] = t]
      BY <2>2, <2>5, <2>8, StoredEffect
    <3> QED
      BY <2>1, <2>2, <2>3, <2>4, <2>5, <2>8, <3>1, StoredEffect
  <2> QED
    BY <2>6, <2>7, <2>8
<1>2. CASE StorTimesOut(c)
  <2>1. PICK yes \in BOOLEAN : Stored(c, yes)
    BY <1>2 DEF StorTimesOut
  <2>2. \E t \in {"none", "part", "whole"} : temp' = [temp EXCEPT ![c] = t]
    BY <1>2, <2>1, StoredEffect DEF StorTimesOut
  <2> QED
    BY <1>2, <2>1, <2>2, StoredEffect DEF StorTimesOut, caller
<1> QED
  BY <1>1, <1>2

LEMMA StorEndsKeeps ==
  ASSUME TypeOK, NEW c \in Calls, CallInv(c), StorEnds(c) \/ StorTimesOut(c)
  PROVE  Kept(c)
<1> USE DEF TypeOK, CallInv, StorEndsDoes
<1>0. StorEndsDoes(c)
  BY StorEndsEffect
<1>p. op[c] # "upload" => /\ AfterStor(op[c]) \in {"recheck", "size", "rnto"}
                          /\ AfterStor(op[c]) = "recheck" => op[c] = "put"
                          /\ AfterStor(op[c]) = "size" => op[c] = "overwrite"
                          /\ op[c] \in Guarded
  BY <1>0 DEF AfterStor, OpSends, Guarded
<1>1. TypeOK'
  <2>1. EndTypes'
    <3>1. op[c] # "upload" => AfterStor(op[c]) \in Steps
      BY <1>p DEF Steps
    <3>2. \/ \E s \in Sessions : \E o \in Outcomes : Finish(c, o, s, FALSE) \/ Unwind(c, o, s)
          \/ op[c] # "upload" /\ GoOn(c, AfterStor(op[c]), "home")
      BY <1>0 DEF Outcomes, Sessions
    <3>3. "home" \in Sessions
      BY DEF Sessions
    <3> QED
      BY <3>1, <3>2, <3>3, MoveTypes
  <2>2. op' \in [Calls -> Ops \cup {"none"}] /\ left' \in [Calls -> 0..Depth]
    BY <1>0, <1>p
  <2>3. target' \in Contents /\ temp' \in [Calls -> {"none", "part", "whole"}]
    BY <1>0, <1>p DEF Contents
  <2>4. landed' \in [Calls -> BOOLEAN] /\ gone' \in [Calls -> BOOLEAN]
    BY <1>0, <1>p
  <2> QED
    BY <1>0, <1>p, <2>1, <2>2, <2>3, <2>4 DEF EndTypes, GoOn, Finish, Unwind
<1> USE DEF GoOn, Finish, Unwind, OpSends, Guarded
<1>2. OpSends(c)'
  BY <1>0, <1>p
<1>3. TempKept(c)'
  BY <1>0, <1>p DEF TempKept
<1>4. ErrTells(c)'
  BY <1>0, <1>p DEF ErrTells
<1>5. SessionStays(c)'
  BY <1>0, <1>p DEF SessionStays
<1>6. ToldTruly(c)'
  BY <1>0, <1>p DEF ToldTruly, ErrTells
<1>7. \A d \in Calls \ {c} : Untouched(d)
  BY <1>0, <1>p DEF Untouched
<1> QED
  BY <1>1, <1>2, <1>3, <1>4, <1>5, <1>6, <1>7 DEF Kept

DeleDoes(c) ==
  /\ UNCHANGED <<via, op, left, temp, landed>> /\ pc[c] = "dele"
  /\ \/ /\ op[c] = "remove" /\ gone' = [gone EXCEPT ![c] = FALSE] /\ target' \in {Absent, target}
        /\ \E o \in {"ok", "failed", "garbled"}, s \in {"home", "broken"} :
             Finish(c, o, s, FALSE)
     \/ /\ op[c] # "remove" /\ gone' = [gone EXCEPT ![c] = TRUE] /\ target' = Absent
        /\ sess[c] \in {"home", "broken"}
        /\ GoOn(c, "rntoOnly", sess[c]) \/ Finish(c, "uncertain", "closed", TRUE)
     \/ /\ op[c] # "remove" /\ gone' = [gone EXCEPT ![c] = FALSE] /\ UNCHANGED target
        /\ sess[c] \in {"home", "broken"}
        /\ Unwind(c, "failed", sess[c]) \/ Finish(c, "uncertain", "closed", TRUE)

LEMMA DeleEffect ==
  ASSUME TypeOK, NEW c \in Calls, CallInv(c), Dele(c)
  PROVE  DeleDoes(c)
<1> USE DEF TypeOK, CallInv, DeleDoes
<1>1. sess[c] \in {"home", "broken"} /\ pc[c] = "dele" /\ UNCHANGED <<via, op, left, temp, landed>>
  BY DEF SessionStays, Dele, caller
<1> DEFINE Removed(r, yes) ==
        /\ target' = IF yes THEN Absent ELSE target
        /\ gone' = [gone EXCEPT ![c] = yes /\ op[c] = "overwrite"]
        /\ \/ op[c] = "remove" /\ Finish(c, IF r = "ok" THEN "ok" ELSE Error(r),
                                          After(c, r), FALSE)
           \/ op[c] # "remove" /\ r = "ok" /\ GoOn(c, "rntoOnly", sess[c])
           \/ op[c] # "remove" /\ r = "refused" /\ Unwind(c, "failed", sess[c])
           \/ /\ op[c] # "remove" /\ r \in {"lost", "garbled"}
              /\ Finish(c, "uncertain", "closed", TRUE)
<1>0. PICK r \in Ends(c) : \E yes \in Ran(r) : Removed(r, yes)
  BY DEF Dele
<1>2. PICK yes \in Ran(r) : Removed(r, yes)
  BY <1>0
<1>3. yes \in BOOLEAN /\ (r = "ok" => yes) /\ (r = "refused" => ~yes)
  BY RanIsBoolean
<1>4. /\ After(c, r) \in {"home", "broken"}
      /\ (IF r = "ok" THEN "ok" ELSE Error(r)) \in {"ok", "failed", "garbled"}
  BY <1>1 DEF After, Error
<1>5. op[c] = "remove" \/ op[c] = "overwrite"
  BY <1>1 DEF OpSends
<1>6. CASE op[c] = "remove"
  <2>1. (yes /\ op[c] = "overwrite") = FALSE
    BY <1>6
  <2>2. gone' = [gone EXCEPT ![c] = FALSE]
    BY <1>2, <2>1
  <2> QED
    BY <1>1, <1>2, <1>4, <1>6, <2>2
<1>7. CASE op[c] = "overwrite" /\ yes
  <2>1. (yes /\ op[c] = "overwrite") = TRUE
    BY <1>7
  <2>2. gone' = [gone EXCEPT ![c] = TRUE]
    BY <1>2, <2>1
  <2> QED
    BY <1>1, <1>2, <1>3, <1>7, <2>2
<1>8. CASE op[c] = "overwrite" /\ ~yes
  <2>1. (yes /\ op[c] = "overwrite") = FALSE
    BY <1>8
  <2>2. gone' = [gone EXCEPT ![c] = FALSE]
    BY <1>2, <2>1
  <2> QED
    BY <1>1, <1>2, <1>3, <1>8, <2>2
<1> QED
  BY <1>5, <1>6, <1>7, <1>8

LEMMA DeleKeeps ==
  ASSUME TypeOK, NEW c \in Calls, CallInv(c), Dele(c)
  PROVE  Kept(c)
<1> USE DEF TypeOK, CallInv, DeleDoes
<1>0. DeleDoes(c)
  BY DeleEffect
<1>1. TypeOK'
  <2>1. EndTypes'
    BY <1>0, MoveTypes DEF Outcomes, Sessions, Steps
  <2>2. op' \in [Calls -> Ops \cup {"none"}] /\ left' \in [Calls -> 0..Depth]
    BY <1>0
  <2>3. target' \in Contents /\ temp' \in [Calls -> {"none", "part", "whole"}]
    BY <1>0 DEF Contents
  <2>4. landed' \in [Calls -> BOOLEAN] /\ gone' \in [Calls -> BOOLEAN]
    BY <1>0
  <2> QED
    BY <1>0, <2>1, <2>2, <2>3, <2>4 DEF EndTypes, GoOn, Finish, Unwind
<1> USE DEF GoOn, Finish, Unwind, OpSends, Guarded
<1>2. OpSends(c)'
  BY <1>0
<1>3. TempKept(c)'
  BY <1>0 DEF TempKept
<1>4. ErrTells(c)'
  BY <1>0 DEF ErrTells
<1>5. SessionStays(c)'
  BY <1>0 DEF SessionStays
<1>6. ToldTruly(c)'
  BY <1>0 DEF ToldTruly, ErrTells
<1>7. \A d \in Calls \ {c} : Untouched(d)
  BY <1>0 DEF Untouched
<1> QED
  BY <1>1, <1>2, <1>3, <1>4, <1>5, <1>6, <1>7 DEF Kept

RenameDoes(c) ==
  /\ UNCHANGED <<via, op, left, gone>> /\ sess[c] \in {"home", "broken"}
  /\ \/ /\ target' = c /\ temp' = [temp EXCEPT ![c] = "none"]
        /\ landed' = [landed EXCEPT ![c] = TRUE]
     \/ UNCHANGED <<target, temp>> /\ landed' = [landed EXCEPT ![c] = FALSE]
  /\ \/ pc[c] \in {"rnto", "rntoOnly"} /\ Finish(c, "ok", sess[c], FALSE) /\ landed'[c]
     \/ pc[c] \in {"rnto", "rntoOnly"} /\ Finish(c, "uncertain", "closed", TRUE)
     \/ pc[c] = "rntoOnly" /\ Finish(c, "failed", sess[c], TRUE) /\ ~landed'[c]
     \/ pc[c] = "rntoOnly" /\ Finish(c, "garbled", sess[c], TRUE)
     \/ pc[c] = "rnto" /\ Unwind(c, "failed", sess[c]) /\ ~landed'[c]
     \/ pc[c] = "rnto" /\ Unwind(c, "garbled", sess[c])

LEMMA RenameEffect ==
  ASSUME TypeOK, NEW c \in Calls, CallInv(c), Rename(c)
  PROVE  RenameDoes(c)
<1> USE DEF TypeOK, CallInv, RenameDoes
<1>1. /\ sess[c] \in {"home", "broken"} /\ pc[c] \in {"rnto", "rntoOnly"}
      /\ UNCHANGED <<via, op, left, gone>>
  BY DEF SessionStays, Rename, caller
<1> DEFINE Moved(r, yes) ==
        /\ target' = IF yes THEN c ELSE target
        /\ temp' = [temp EXCEPT ![c] = IF yes THEN "none" ELSE @]
        /\ landed' = [landed EXCEPT ![c] = yes]
        /\ Renamed(c, r)
<1>0. PICK r \in Ends(c) : \E yes \in Ran(r) : Moved(r, yes)
  BY DEF Rename
<1>2. PICK yes \in Ran(r) : Moved(r, yes)
  BY <1>0
<1>3. yes \in BOOLEAN /\ (r = "ok" => yes) /\ (r = "refused" => ~yes)
  BY RanIsBoolean
<1>4. \/ /\ yes /\ target' = c /\ temp' = [temp EXCEPT ![c] = "none"]
         /\ landed' = [landed EXCEPT ![c] = TRUE]
      \/ ~yes /\ UNCHANGED <<target, temp>> /\ landed' = [landed EXCEPT ![c] = FALSE]
  <2>1. CASE yes = TRUE
    BY <1>2, <2>1
  <2>2. CASE yes = FALSE
    BY <1>2, <2>2
  <2> QED
    BY <1>3, <2>1, <2>2
<1>5. landed'[c] <=> yes
  BY <1>4
<1> QED
  BY <1>1, <1>2, <1>3, <1>4, <1>5 DEF Renamed, Error

LEMMA RenameKeeps ==
  ASSUME TypeOK, NEW c \in Calls, CallInv(c), Rename(c)
  PROVE  Kept(c)
<1> USE DEF TypeOK, CallInv, RenameDoes
<1>0. RenameDoes(c)
  BY RenameEffect
<1>1. TypeOK'
  <2>1. EndTypes'
    BY <1>0, MoveTypes DEF Outcomes, Sessions, Steps
  <2>2. op' \in [Calls -> Ops \cup {"none"}] /\ left' \in [Calls -> 0..Depth]
    BY <1>0
  <2>3. target' \in Contents /\ temp' \in [Calls -> {"none", "part", "whole"}]
    BY <1>0 DEF Contents
  <2>4. landed' \in [Calls -> BOOLEAN] /\ gone' \in [Calls -> BOOLEAN]
    BY <1>0
  <2> QED
    BY <1>0, <2>1, <2>2, <2>3, <2>4 DEF EndTypes, GoOn, Finish, Unwind
<1> USE DEF GoOn, Finish, Unwind, OpSends, Guarded
<1>2. OpSends(c)'
  BY <1>0
<1>3. TempKept(c)'
  BY <1>0 DEF TempKept
<1>4. ErrTells(c)'
  BY <1>0 DEF ErrTells
<1>5. SessionStays(c)'
  BY <1>0 DEF SessionStays
<1>6. ToldTruly(c)'
  BY <1>0 DEF ToldTruly, ErrTells
<1>7. \A d \in Calls \ {c} : Untouched(d)
  BY <1>0 DEF Untouched
<1> QED
  BY <1>1, <1>2, <1>3, <1>4, <1>5, <1>6, <1>7 DEF Kept

DropTempDoes(c) ==
  /\ UNCHANGED <<via, op, left, target, landed, gone>> /\ pc[c] = "drop"
  /\ \E s \in {"home", "broken", "closed"} :
       \/ temp' = [temp EXCEPT ![c] = "none"] /\ Finish(c, err[c], s, FALSE)
       \/ temp' = [temp EXCEPT ![c] = "none"] /\ Finish(c, err[c], s, TRUE)
       \/ UNCHANGED temp /\ Finish(c, err[c], s, TRUE)

LEMMA DropTempEffect ==
  ASSUME TypeOK, NEW c \in Calls, CallInv(c), DropTemp(c)
  PROVE  DropTempDoes(c)
<1> USE DEF TypeOK, CallInv, DropTempDoes
<1>1. pc[c] = "drop" /\ UNCHANGED <<via, op, left, target, landed, gone>>
      /\ sess[c] \in {"home", "broken", "closed"}
  BY DEF DropTemp, SessionStays, caller, file
<1> DEFINE Dropped(r, yes) ==
        /\ temp' = [temp EXCEPT ![c] = IF yes THEN "none" ELSE @]
        /\ Finish(c, err[c], After(c, r), Names(r))
<1>0. PICK r \in {"ok", "refused", "lost", "garbled"} : \E yes \in Ran(r) : Dropped(r, yes)
  BY DEF DropTemp, Ends
<1>2. PICK yes \in Ran(r) : Dropped(r, yes)
  BY <1>0
<1>3. yes \in BOOLEAN /\ (r = "ok" => yes)
  BY RanIsBoolean
<1>4. temp' = [temp EXCEPT ![c] = "none"] \/ (UNCHANGED temp /\ ~yes)
  <2>0. temp' = [temp EXCEPT ![c] = IF yes THEN "none" ELSE @]
    BY <1>2
  <2> HIDE DEF Dropped
  <2>1. CASE yes = TRUE
    BY <2>0, <2>1
  <2>2. CASE yes = FALSE
    BY <2>0, <2>2
  <2> QED
    BY <1>3, <2>1, <2>2
<1>5. After(c, r) \in {"home", "broken", "closed"}
  BY <1>1 DEF After
<1>6. Names(r) \in BOOLEAN /\ (Names(r) \/ r = "ok")
  BY DEF Names
<1> QED
  BY <1>1, <1>2, <1>3, <1>4, <1>5, <1>6

LEMMA DropTempKeeps ==
  ASSUME TypeOK, NEW c \in Calls, CallInv(c), DropTemp(c)
  PROVE  Kept(c)
<1> USE DEF TypeOK, CallInv, DropTempDoes
<1>0. DropTempDoes(c)
  BY DropTempEffect
<1>e. err[c] \in {"failed", "exists", "garbled"}
  BY <1>0 DEF ErrTells
<1>1. TypeOK'
  <2>1. EndTypes'
    <3>1. PICK s \in Sessions, n \in BOOLEAN : Finish(c, err[c], s, n)
      BY <1>0 DEF Sessions
    <3>2. err[c] \in Outcomes
      BY <1>e DEF Outcomes
    <3> QED
      BY <3>1, <3>2, MoveTypes
  <2>2. op' \in [Calls -> Ops \cup {"none"}] /\ left' \in [Calls -> 0..Depth]
    BY <1>0, <1>e
  <2>3. target' \in Contents /\ temp' \in [Calls -> {"none", "part", "whole"}]
    BY <1>0, <1>e DEF Contents
  <2>4. landed' \in [Calls -> BOOLEAN] /\ gone' \in [Calls -> BOOLEAN]
    BY <1>0, <1>e
  <2> QED
    BY <1>0, <1>e, <2>1, <2>2, <2>3, <2>4 DEF EndTypes, GoOn, Finish, Unwind
<1> USE DEF GoOn, Finish, Unwind, OpSends, Guarded
<1>2. OpSends(c)'
  BY <1>0, <1>e
<1>3. TempKept(c)'
  BY <1>0, <1>e DEF TempKept
<1>4. ErrTells(c)'
  BY <1>0, <1>e DEF ErrTells
<1>5. SessionStays(c)'
  BY <1>0, <1>e DEF SessionStays
<1>6. ToldTruly(c)'
  BY <1>0, <1>e DEF ToldTruly, ErrTells
<1>7. \A d \in Calls \ {c} : Untouched(d)
  BY <1>0, <1>e DEF Untouched
<1> QED
  BY <1>1, <1>2, <1>3, <1>4, <1>5, <1>6, <1>7 DEF Kept

LEMMA MkdirKeeps ==
  ASSUME TypeOK, NEW c \in Calls, CallInv(c), Mkd(c) \/ Pwd(c) \/ Cwd(c) \/ Back(c)
  PROVE  Kept(c)
<1> USE DEF TypeOK, CallInv
<1> USE DEF caller, file, Mkd, Pwd, Cwd, Back, Ends, Error, After
<1>1. TypeOK'
  <2>1. EndTypes'
    BY MoveTypes DEF EndTypes, Outcomes, Sessions, Steps
  <2>2. op' \in [Calls -> Ops \cup {"none"}] /\ left' \in [Calls -> 0..Depth]
    BY ClientAssumption DEF GoOn, Finish
  <2>3. target' \in Contents /\ temp' \in [Calls -> {"none", "part", "whole"}]
    BY DEF Contents
  <2>4. landed' \in [Calls -> BOOLEAN] /\ gone' \in [Calls -> BOOLEAN]
    OBVIOUS
  <2> QED
    BY <2>1, <2>2, <2>3, <2>4 DEF EndTypes, GoOn, Finish
<1> USE DEF GoOn, Finish, Unwind, OpSends, Guarded
<1>2. OpSends(c)'
  BY DEF Ops
<1>3. TempKept(c)'
  BY DEF TempKept
<1>4. ErrTells(c)'
  BY DEF ErrTells
<1>5. SessionStays(c)'
  BY DEF SessionStays
<1>6. ToldTruly(c)'
  BY DEF ToldTruly, ErrTells, Outcomes
<1>7. \A d \in Calls \ {c} : Untouched(d)
  BY DEF Untouched
<1> QED
  BY <1>1, <1>2, <1>3, <1>4, <1>5, <1>6, <1>7 DEF Kept

LEMMA ReadKeeps ==
  ASSUME TypeOK, NEW c \in Calls, CallInv(c), Read(c) \/ ReadEnds(c) \/ ReadTrips(c)
  PROVE  Kept(c)
<1> USE DEF TypeOK, CallInv
<1> USE DEF caller, file, Read, ReadEnds, ReadTrips, Ends, Error, After
<1>1. TypeOK'
  <2>1. EndTypes'
    BY MoveTypes DEF EndTypes, Outcomes, Sessions, Steps
  <2>2. op' \in [Calls -> Ops \cup {"none"}] /\ left' \in [Calls -> 0..Depth]
    BY ClientAssumption DEF GoOn, Finish
  <2>3. target' \in Contents /\ temp' \in [Calls -> {"none", "part", "whole"}]
    BY DEF Contents
  <2>4. landed' \in [Calls -> BOOLEAN] /\ gone' \in [Calls -> BOOLEAN]
    OBVIOUS
  <2> QED
    BY <2>1, <2>2, <2>3, <2>4 DEF EndTypes, GoOn, Finish
<1> USE DEF GoOn, Finish, Unwind, OpSends, Guarded
<1>2. OpSends(c)'
  BY DEF Ops
<1>3. TempKept(c)'
  BY DEF TempKept
<1>4. ErrTells(c)'
  BY DEF ErrTells
<1>5. SessionStays(c)'
  BY DEF SessionStays
<1>6. ToldTruly(c)'
  BY DEF ToldTruly, ErrTells, Outcomes
<1>7. \A d \in Calls \ {c} : Untouched(d)
  BY DEF Untouched
<1> QED
  BY <1>1, <1>2, <1>3, <1>4, <1>5, <1>6, <1>7 DEF Kept

-----------------------------------------------------------------------------
(* From one call to all of them *)

Acts(c) ==
  \/ Call(c) \/ Login(c) \/ Answer(c) \/ GiveUp(c) \/ WorkerDies(c)
  \/ Exists(c) \/ Stor(c) \/ StorEnds(c) \/ StorTimesOut(c)
  \/ Dele(c) \/ Rename(c) \/ DropTemp(c)
  \/ Mkd(c) \/ Pwd(c) \/ Cwd(c) \/ Back(c)
  \/ Read(c) \/ ReadEnds(c) \/ ReadTrips(c)

LEMMA ActsKeeps == ASSUME TypeOK, NEW c \in Calls, CallInv(c), Acts(c) PROVE Kept(c)
BY CallerKeeps, LoginKeeps, ExistsKeeps, StorKeeps, StorEndsKeeps, DeleKeeps,
   RenameKeeps, DropTempKeeps, MkdirKeeps, ReadKeeps
DEF Acts

\* An answer is final, and only a call that is at it touches the file.
Discreet(c) ==
  /\ told[c] # "none" => told'[c] = told[c]
  /\ target' # target => pc[c] \in {"stor", "storing", "dele", "rnto", "rntoOnly"}
  /\ op' = op \/ Call(c)
  /\ op[c] = "put" /\ pc'[c] = "rnto" =>
       target' = Absent \/ (pc[c] = "rnto" /\ target' = target)

LEMMA ActsDiscreet ==
  ASSUME TypeOK, NEW c \in Calls, CallInv(c), Acts(c)
  PROVE  Discreet(c)
<1> USE DEF TypeOK, CallInv, ToldTruly, OpSends, Discreet, GoOn, Finish, Unwind, caller, file
<1>1. CASE Call(c) \/ Login(c) \/ Answer(c) \/ GiveUp(c) \/ WorkerDies(c)
  BY <1>1 DEF Call, Login, Answer, GiveUp, WorkerDies, FirstStep
<1>2. CASE Exists(c)
  BY <1>2 DEF Exists
<1>3. CASE Stor(c) \/ StorEnds(c) \/ StorTimesOut(c)
  BY <1>3 DEF Stor, StorEnds, StorTimesOut, AfterStor
<1>4. CASE Dele(c) \/ Rename(c) \/ DropTemp(c)
  BY <1>4 DEF Dele, Rename, Renamed, DropTemp
<1>5. CASE Mkd(c) \/ Pwd(c) \/ Cwd(c) \/ Back(c)
  BY <1>5 DEF Mkd, Pwd, Cwd, Back
<1>6. CASE Read(c) \/ ReadEnds(c) \/ ReadTrips(c)
  BY <1>6 DEF Read, ReadEnds, ReadTrips
<1> QED
  BY <1>1, <1>2, <1>3, <1>4, <1>5, <1>6 DEF Acts

LEMMA ClientNextInv == ClientInv /\ [Next]_clientVars => ClientInv'
<1> SUFFICES ASSUME ClientInv, [Next]_clientVars PROVE ClientInv'
  OBVIOUS
<1>1. ASSUME NEW c \in Calls, Acts(c) PROVE ClientInv'
  <2>1. Kept(c) /\ Discreet(c)
    BY <1>1, ActsKeeps, ActsDiscreet DEF ClientInv
  <2>2. \A d \in Calls \ {c} : CallInv(d)'
    BY <2>1 DEF ClientInv, Kept, Untouched, CallInv, OpSends, TempKept, ErrTells, SessionStays, ToldTruly
  <2>3. OneAwaited'
    <3>1. CASE op' = op
      BY <2>1, <3>1 DEF ClientInv, OneAwaited, Kept, Untouched, Discreet
    <3>2. CASE Call(c)
      BY <2>1, <3>2 DEF Call, CallerFree, OneAwaited, Kept, Untouched
    <3> QED
      BY <2>1, <3>1, <3>2 DEF Discreet
  <2>4. PutAlone'
    <3> SUFFICES ASSUME NEW d \in Calls, op'[d] = "put", pc'[d] = "rnto", target' # Absent
                 PROVE  \E e \in Calls : told'[e] = "proxyerror"
      BY DEF PutAlone
    <3>1. \A e \in Calls : told[e] = "proxyerror" => told'[e] = "proxyerror"
      BY <2>1 DEF Kept, Untouched, Discreet
    <3>2. CASE op[d] = "put" /\ pc[d] = "rnto" /\ target' = target
      BY <3>1, <3>2 DEF ClientInv, PutAlone
    <3>3. CASE d # c /\ target' # target
      <4>1. /\ pc[d] = "rnto" /\ pc[c] \in {"stor", "storing", "dele", "rnto", "rntoOnly"}
            /\ op[d] # "none" /\ op[c] # "none"
        BY <2>1, <3>3 DEF ClientInv, CallInv, OpSends, Kept, Untouched, Discreet
      <4>2. told[c] \in {"none", "proxyerror"} /\ told[d] \in {"none", "proxyerror"}
        BY <4>1 DEF ClientInv, CallInv, ToldTruly
      <4>3. told[c] = "proxyerror" \/ told[d] = "proxyerror"
        BY <3>3, <4>1, <4>2 DEF ClientInv, OneAwaited
      <4> QED
        BY <3>1, <4>3
    <3>4. CASE d = c
      <4>1. op[c] = "put" \/ Call(c)
        BY <2>1, <3>4 DEF Discreet
      <4>2. ~Call(c)
        BY <3>4 DEF Call, ClientInv, TypeOK
      <4> QED
        BY <2>1, <3>2, <3>4, <4>1, <4>2 DEF Discreet
    <3>5. CASE d # c /\ target' = target
      BY <2>1, <3>2, <3>5 DEF Kept, Untouched
    <3> QED
      BY <3>3, <3>4, <3>5
  <2> QED
    BY <2>1, <2>2, <2>3, <2>4 DEF ClientInv, Kept
<1>2. CASE UNCHANGED clientVars
  BY <1>2 DEF clientVars, ClientInv, TypeOK, CallInv, OpSends, TempKept, ErrTells, SessionStays,
    ToldTruly, OneAwaited, PutAlone
<1> QED
  BY <1>1, <1>2 DEF Next, Acts

(* The inductive invariant of the client: each call is where its operation  *)
(* leads, and keeps its temporary file, its connection and its word.        *)
THEOREM ClientInvariant == Spec => []ClientInv
BY ClientInitInv, ClientNextInv, PTL DEF Spec

(* Whatever a call leaves, it is named, and no new copy is lost.            *)
THEOREM CopiesAreAccounted == Spec => []CopiesAccounted
<1>1. ClientInv => CopiesAccounted
  BY DEF ClientInv, TypeOK, CallInv, TempKept, ToldTruly, CopiesAccounted, Outcomes
<1> QED
  BY <1>1, ClientInvariant, PTL

(* A connection that is kept can be used.                                   *)
THEOREM SessionsAreUsable == Spec => []SessionUsable
<1>1. ClientInv => SessionUsable
  BY DEF ClientInv, CallInv, SessionStays, SessionUsable
<1> QED
  BY <1>1, ClientInvariant, PTL

-----------------------------------------------------------------------------
(* FilePromise *)

\* What an outcome may say of the data of its call.
Truthful(c, o, yes) ==
  /\ o = "ok" /\ op[c] \in Guarded \cup {"upload"} => yes
  /\ o \in {"exists", "failed"} /\ op[c] \in Guarded => ~yes

\* What a step of a call does to the file, and to what its caller knows.
Effect(c) ==
  \/ UNCHANGED <<target, landed>>
  \/ /\ op[c] \in Guarded \cup {"upload"} /\ ~landed[c]
     /\ op[c] = "put" => pc[c] = "rnto"
     /\ target' = c /\ landed' = [landed EXCEPT ![c] = TRUE]
  \/ op[c] \in {"overwrite", "remove"} /\ ~landed[c] /\ target' = Absent /\ UNCHANGED landed
  \/ op[c] = "upload" /\ ~landed[c] /\ target' = Half /\ UNCHANGED landed

Word(c) ==
  \/ UNCHANGED told
  \/ /\ told[c] = "none"
     /\ \E o \in Outcomes \cup {"proxyerror"} :
          /\ told' = [told EXCEPT ![c] = o]
          /\ o = "proxyerror" => via = "proxy"
          /\ Truthful(c, o, landed'[c])

LEMMA WordOfFinish ==
  ASSUME TypeOK, NEW c \in Calls, ToldTruly(c), NEW o \in Outcomes, NEW s, NEW n,
         pc[c] # "done", Finish(c, o, s, n), Truthful(c, o, landed'[c])
  PROVE  Word(c)
<1>1. CASE via = "direct"
  BY <1>1 DEF Finish, Word, ToldTruly, Outcomes
<1>2. CASE via # "direct"
  BY <1>2 DEF Finish, Word
<1> QED
  BY <1>1, <1>2

LEMMA ActsOnFile ==
  ASSUME TypeOK, NEW c \in Calls, CallInv(c), Acts(c)
  PROVE  Effect(c)
<1> USE DEF TypeOK, CallInv, OpSends, ErrTells, Guarded
<1>1. CASE UNCHANGED <<target, landed>>
  BY <1>1 DEF Effect
<1>2. ~landed[c] => [landed EXCEPT ![c] = FALSE] = landed
  OBVIOUS
<1>3. CASE Stor(c)
  BY <1>3, StorEffect DEF StorDoes, Effect
<1>4. CASE StorEnds(c) \/ StorTimesOut(c)
  BY <1>2, <1>4, StorEndsEffect DEF StorEndsDoes, Effect
<1>5. CASE Dele(c)
  BY <1>5, DeleEffect DEF DeleDoes, Effect
<1>6. CASE Rename(c)
  BY <1>2, <1>6, RenameEffect DEF RenameDoes, Effect
<1> QED
  BY <1>1, <1>3, <1>4, <1>5, <1>6
  DEF Acts, Call, Login, Answer, GiveUp, WorkerDies, Exists, DropTemp, Mkd, Pwd, Cwd, Back,
      Read, ReadEnds, ReadTrips, caller, file

LEMMA ActsSay ==
  ASSUME TypeOK, NEW c \in Calls, CallInv(c), Acts(c)
  PROVE  Word(c)
<1> USE DEF TypeOK, CallInv, OpSends, Guarded
<1>1. CASE UNCHANGED told
  BY <1>1 DEF Word
<1>2. CASE Answer(c) \/ GiveUp(c)
  <2>1. CASE GiveUp(c)
    <3>1. Truthful(c, "proxyerror", landed'[c])
      BY DEF Truthful
    <3> QED
      BY <2>1, <3>1 DEF GiveUp, Word
  <2>2. CASE Answer(c)
    <3>1. err[c] \in Outcomes /\ landed' = landed /\ Truthful(c, err[c], landed[c])
      BY <2>2 DEF Answer, ErrTells, file, Truthful
    <3> QED
      BY <2>2, <3>1 DEF Answer, Word
  <2> QED
    BY <1>2, <2>1, <2>2
<1>3. CASE Login(c) \/ Mkd(c) \/ Pwd(c) \/ Cwd(c) \/ Back(c) \/ Read(c) \/ ReadEnds(c) \/ ReadTrips(c)
  <2>1. op' = op /\ landed' = landed /\ ~landed[c] /\ pc[c] # "done"
    BY <1>3 DEF Login, Mkd, Pwd, Cwd, Back, Read, ReadEnds, ReadTrips, caller, file, ErrTells
  <2>2. \/ UNCHANGED told
        \/ \E o \in Outcomes, s \in Sessions, n \in BOOLEAN :
             Finish(c, o, s, n) /\ Truthful(c, o, FALSE)
    BY <1>3 DEF Login, Mkd, Pwd, Cwd, Back, Read, ReadEnds, ReadTrips, GoOn, Error, After, Truthful,
                Ends, Sessions, Outcomes
  <2> QED
    BY <2>1, <2>2, WordOfFinish DEF Word
<1> USE DEF GoOn, Unwind
<1>4. CASE Exists(c)
  <2>1. ~landed[c] /\ landed' = landed /\ pc[c] # "done" /\ "uncertain" \in Outcomes
    BY <1>4, ExistsEffect DEF ExistsDoes, ErrTells, Outcomes
  <2>2. \A o \in {"exists", "failed", "garbled", "uncertain"} :
          o \in Outcomes /\ Truthful(c, o, landed'[c])
    BY <2>1 DEF Truthful, Outcomes
  <2>3. \/ UNCHANGED told
        \/ \E o \in Outcomes, s \in Sessions, n \in BOOLEAN :
             Finish(c, o, s, n) /\ Truthful(c, o, landed'[c])
    BY <1>4, <2>1, <2>2, ExistsEffect DEF ExistsDoes, Sessions
  <2> QED
    BY <2>1, <2>3, WordOfFinish DEF Word
<1>5. CASE Stor(c)
  <2>1. ~landed[c] /\ landed' = landed /\ pc[c] # "done"
    BY <1>5, StorEffect DEF StorDoes, ErrTells
  <2>2. \A o \in {"failed", "garbled"} : o \in Outcomes /\ Truthful(c, o, landed'[c])
    BY <2>1 DEF Truthful, Outcomes
  <2>3. \/ UNCHANGED told
        \/ \E o \in Outcomes, s \in Sessions, n \in BOOLEAN :
             Finish(c, o, s, n) /\ Truthful(c, o, landed'[c])
    BY <1>5, <2>1, <2>2, StorEffect DEF StorDoes, Sessions
  <2> QED
    BY <2>1, <2>3, WordOfFinish DEF Word
<1>6. CASE StorEnds(c) \/ StorTimesOut(c)
  <2>1. pc[c] # "done"
    BY <1>6, StorEndsEffect DEF StorEndsDoes
  <2>2. \/ UNCHANGED told
        \/ /\ op[c] = "upload"
           /\ \E o \in {"ok", "failed", "garbled"}, s \in {"home", "broken"} :
                Finish(c, o, s, FALSE) /\ (o = "ok" => landed'[c])
    <3>1. landed' = [landed EXCEPT ![c] = TRUE] => landed'[c]
      OBVIOUS
    <3> HIDE DEF TypeOK, CallInv, OpSends, Guarded
    <3> DEFINE Left(os) == \E o \in os, s \in {"home", "broken"} : Finish(c, o, s, FALSE)
    <3>2. \/ UNCHANGED told
          \/ /\ op[c] = "upload" /\ landed' = [landed EXCEPT ![c] = TRUE]
             /\ Left({"ok", "failed", "garbled"})
          \/ op[c] = "upload" /\ Left({"failed", "garbled"})
      BY <1>6, StorEndsEffect DEF StorEndsDoes
    <3> QED
      BY <3>1, <3>2
  <2>3. CASE UNCHANGED told
    BY <2>3 DEF Word
  <2>4. ASSUME op[c] = "upload", NEW o \in {"ok", "failed", "garbled"}, NEW s,
               Finish(c, o, s, FALSE), o = "ok" => landed'[c]
        PROVE  Word(c)
    <3>1. o \in Outcomes /\ Truthful(c, o, landed'[c])
      BY <2>4 DEF Truthful, Outcomes
    <3> QED
      BY <2>1, <2>4, <3>1, WordOfFinish
  <2> QED
    BY <2>2, <2>3, <2>4
<1>7. CASE Dele(c)
  <2>1. ~landed[c] /\ landed' = landed /\ pc[c] # "done"
    BY <1>7, DeleEffect DEF DeleDoes, ErrTells
  <2>2. /\ op[c] = "remove" =>
             \A o \in {"ok", "failed", "garbled"} : o \in Outcomes /\ Truthful(c, o, landed'[c])
        /\ "uncertain" \in Outcomes /\ Truthful(c, "uncertain", landed'[c])
    BY <2>1 DEF Truthful, Outcomes
  <2>3. \/ UNCHANGED told
        \/ /\ op[c] = "remove"
           /\ \E o \in {"ok", "failed", "garbled"}, s \in {"home", "broken"} :
                Finish(c, o, s, FALSE)
        \/ Finish(c, "uncertain", "closed", TRUE)
    BY <1>7, DeleEffect DEF DeleDoes
  <2>4. CASE UNCHANGED told
    BY <2>4 DEF Word
  <2>5. ASSUME op[c] = "remove", NEW o \in {"ok", "failed", "garbled"}, NEW s, Finish(c, o, s, FALSE)
        PROVE  Word(c)
    BY <2>1, <2>2, <2>5, WordOfFinish
  <2>6. CASE Finish(c, "uncertain", "closed", TRUE)
    BY <2>1, <2>2, <2>6, WordOfFinish
  <2> QED
    BY <2>3, <2>4, <2>5, <2>6
<1>8. CASE Rename(c)
  <2>1. pc[c] # "done"
    BY <1>8, RenameEffect DEF RenameDoes
  <2>2. /\ landed'[c] => Truthful(c, "ok", landed'[c])
        /\ ~landed'[c] => Truthful(c, "failed", landed'[c])
        /\ \A o \in {"garbled", "uncertain"} : Truthful(c, o, landed'[c])
        /\ {"ok", "failed", "garbled", "uncertain"} \subseteq Outcomes
    BY DEF Truthful, Outcomes
  <2>3. \/ UNCHANGED told
        \/ Finish(c, "ok", sess[c], FALSE) /\ landed'[c]
        \/ Finish(c, "uncertain", "closed", TRUE)
        \/ Finish(c, "failed", sess[c], TRUE) /\ ~landed'[c]
        \/ Finish(c, "garbled", sess[c], TRUE)
    BY <1>8, RenameEffect DEF RenameDoes
  <2>4. CASE UNCHANGED told
    BY <2>4 DEF Word
  <2>5. CASE Finish(c, "ok", sess[c], FALSE) /\ landed'[c]
    BY <2>1, <2>2, <2>5, WordOfFinish
  <2>6. CASE Finish(c, "uncertain", "closed", TRUE)
    BY <2>1, <2>2, <2>6, WordOfFinish
  <2>7. CASE Finish(c, "failed", sess[c], TRUE) /\ ~landed'[c]
    BY <2>1, <2>2, <2>7, WordOfFinish
  <2>8. CASE Finish(c, "garbled", sess[c], TRUE)
    BY <2>1, <2>2, <2>8, WordOfFinish
  <2> QED
    BY <2>3, <2>4, <2>5, <2>6, <2>7, <2>8
<1>9. CASE DropTemp(c)
  <2>1. /\ pc[c] # "done" /\ landed' = landed /\ err[c] \in Outcomes
        /\ Truthful(c, err[c], landed[c])
    BY <1>9, DropTempEffect DEF DropTempDoes, ErrTells, Truthful, Outcomes
  <2>3. \/ UNCHANGED told
        \/ \E o \in Outcomes, s \in Sessions, n \in BOOLEAN :
             Finish(c, o, s, n) /\ Truthful(c, o, landed'[c])
    BY <1>9, <2>1, DropTempEffect DEF DropTempDoes, Sessions
  <2> QED
    BY <2>1, <2>3, WordOfFinish DEF Word
<1> QED
  BY <1>1, <1>2, <1>3, <1>4, <1>5, <1>6, <1>7, <1>8, <1>9 DEF Acts, Call, WorkerDies

LEMMA ActsPromised ==
  ASSUME ClientInv, NEW c \in Calls, Acts(c)
  PROVE  [Promise!PromiseNext]_(Promise!promiseVars)
<1>1. TypeOK /\ CallInv(c)
  BY DEF ClientInv
<1>2. CASE Call(c)
  <2>1. op[c] = "none"
    BY <1>1, <1>2 DEF Call, CallInv, OpSends
  <2>2. Promise!Start(c)
    BY <1>2, <2>1 DEF Call, Promise!Start, Ops, Promise!Kinds, Promise!Stores, Promise!Guarded
  <2> QED
    BY <2>2 DEF Promise!PromiseNext
<1>3. CASE ~Call(c)
  <2>1. op' = op /\ via' = via
    BY <1>3 DEF Acts, Login, Answer, GiveUp, WorkerDies, Exists, Stor, StorEnds, StorTimesOut, Dele,
      Rename, DropTemp, Mkd, Pwd, Cwd, Back, Read, ReadEnds, ReadTrips, caller
  <2>2. CASE UNCHANGED <<target, landed, told>>
    BY <2>1, <2>2 DEF Promise!promiseVars
  <2>3. ASSUME ~UNCHANGED <<target, landed, told>> PROVE Promise!Proceed(c)
    <3>1. Promise!Unsettled(c)
      <4>1. pc[c] \notin {"idle", "done"} \/ (pc[c] # "idle" /\ told[c] = "none")
        BY <1>3, <2>3 DEF Acts, Login, Answer, GiveUp, WorkerDies, Exists, Stor, StorEnds,
          StorTimesOut, Dele, Rename, DropTemp, Mkd, Pwd, Cwd, Back, Read, ReadEnds, ReadTrips,
          caller, file
      <4> QED
        BY <1>1, <4>1 DEF CallInv, OpSends, ToldTruly, Promise!Unsettled
    <3>2. \/ Promise!Land(c) \/ Promise!Vanish(c) \/ Promise!Spoil(c)
          \/ UNCHANGED <<target, landed>>
      <4>1. Effect(c)
        BY <1>1, ActsOnFile
      <4>2. op[c] = "put" /\ pc[c] = "rnto" => target = Absent \/ Promise!Overtaken
        BY DEF ClientInv, PutAlone, Promise!Overtaken
      <4> QED
        BY <4>1, <4>2 DEF Effect, Guarded, Promise!Land, Promise!Vanish, Promise!Spoil,
          Promise!Stores, Promise!Guarded
    <3>3. Promise!Report(c) \/ UNCHANGED told
      <4>1. Word(c)
        BY <1>1, ActsSay
      <4>2. ASSUME NEW o \in Outcomes \cup {"proxyerror"}, Truthful(c, o, landed'[c]),
                   o = "proxyerror" => via = "proxy"
            PROVE  o \in Promise!Outcomes /\ Promise!Honest(c, o)
        BY <4>2 DEF Outcomes, Truthful, Guarded, Promise!Outcomes, Promise!Honest,
          Promise!Stores, Promise!Guarded
      <4> QED
        BY <4>1, <4>2 DEF Word, Promise!Report
    <3> QED
      BY <2>1, <3>1, <3>2, <3>3 DEF Promise!Proceed
  <2> QED
    BY <2>2, <2>3 DEF Promise!PromiseNext
<1> QED
  BY <1>2, <1>3

(* The client implements FilePromise: what its calls do to the file, and    *)
(* what they say of it, is what FilePromise allows, step by step.           *)
THEOREM ClientKeepsPromise == Spec => PromiseKept
<1>1. Init => Promise!PromiseInit
  BY DEF Init, Promise!PromiseInit
<1>2. ClientInv /\ [Next]_clientVars => [Promise!PromiseNext]_(Promise!promiseVars)
  <2> SUFFICES ASSUME ClientInv, [Next]_clientVars
               PROVE  [Promise!PromiseNext]_(Promise!promiseVars)
    OBVIOUS
  <2>1. CASE Next
    BY <2>1, ActsPromised DEF Next, Acts
  <2>2. CASE UNCHANGED clientVars
    BY <2>2 DEF clientVars, Promise!promiseVars
  <2> QED
    BY <2>1, <2>2
<1> QED
  BY <1>1, <1>2, ClientInvariant, PTL DEF Spec, PromiseKept, Promise!PromiseSpec

(****************************** FleetWork **********************************)

\* The worker of a spec: what it has settled is the items before the one in
\* hand, each of them once; it is where it logged in until a probe succeeds.
ItemsSettled(i) ==
  /\ step[i] # "idle" => thread[i] = "running"
  /\ thread[i] = "queued" \/ step[i] = "connect" => total[i] = 0
  /\ thread[i] = "queued" \/ step[i] \in {"connect", "resolve"} =>
       pos[i] = 1 /\ good[i] = {} /\ bad[i] = {}
  /\ step[i] \in {"item", "cwd", "home"} =>
       /\ pos[i] <= total[i] + 1
       /\ good[i] \cup bad[i] = 1..pos[i]-1 /\ good[i] \cap bad[i] = {}
  /\ step[i] \in {"cwd", "home"} => pos[i] <= total[i]
  /\ thread[i] = "done" => good[i] \cup bad[i] = 1..total[i] /\ good[i] \cap bad[i] = {}
  /\ thread[i] = "queued" \/ step[i] \in {"connect", "resolve", "item", "cwd"} => i \notin away
  /\ kind # "size" => good[i] \subseteq done[i]

\* A verdict other than a timeout is the end of the worker.
VerdictAtEnd ==
  \A i \in Specs : /\ verdict[i] = "result" => thread[i] = "done"
                   /\ verdict[i] = "error" => thread[i] = "raised"

\* A report is heard of a call that has come to its end.
HeardAtEnd ==
  /\ heard = "report" => main = "returned" /\ cursor = N + 1
  /\ request # "direct" /\ main \in {"finally", "returned"} => cursor = N + 1
  /\ request = "replied" => main = "returned"

\* With a thread for every host all of them start at once, and the request is
\* served as long as they run: host_timeout at most.
ServedInStep ==
  N <= MaxConcurrency /\ request \in {"posted", "serving"} =>
    /\ clock <= HostTimeout
    /\ \A i \in Specs : /\ thread[i] = "queued" => clock = 0 /\ age[i] = 0
                        /\ thread[i] = "running" => age[i] = clock

WorkInv ==
  /\ WorkTypeOK /\ EngineInv
  /\ \A i \in Specs : ItemsSettled(i)
  /\ VerdictAtEnd /\ HeardAtEnd /\ ServedInStep /\ BackstopFirst

LEMMA WorkInvInit == WorkInit => WorkInv
<1> SUFFICES ASSUME WorkInit PROVE WorkInv
  OBVIOUS
<1> USE WorkAssumption, EngineAssumption DEF WorkInit
<1>1. EngineInv
  BY EngineInvInit
<1>2. WorkTypeOK
  BY <1>1 DEF EngineInv, WorkTypeOK, MaxAge, Items, Lines
<1>3. ASSUME NEW i \in Specs PROVE ItemsSettled(i)
  BY DEF EngineInit, ItemsSettled
<1>4. VerdictAtEnd /\ HeardAtEnd /\ ServedInStep /\ BackstopFirst
  BY DEF EngineInit, VerdictAtEnd, HeardAtEnd, ServedInStep, BackstopFirst
<1> QED
  BY <1>1, <1>2, <1>3, <1>4 DEF WorkInv

\* To the engine, a step of the call is one of its own or none.
LEMMA WorkIsEngine == [WorkNext]_workVars => [EngineNext]_engineVars
BY DEF WorkNext, WorkStep, BeginWork, OpenSession, OpenFails, ResolveAll, Transfer, Measure, MakePrefix,
  ProbeRefused, ProbeEntered, ProbeBreaks, GoHome, GoHomeFails, LoseCwd, LeaveWork, CallingThread,
  ReturnWork, WorkTime, Ended, EngineNext, workVars, engineVars

-----------------------------------------------------------------------------
(* The worker of a spec *)

\* A step of a worker leaves the others where they are.
SpecUntouched(j) ==
  /\ step'[j] = step[j] /\ total'[j] = total[j] /\ pos'[j] = pos[j] /\ good'[j] = good[j]
  /\ bad'[j] = bad[j] /\ done'[j] = done[j] /\ thread'[j] = thread[j]
  /\ j \in away' <=> j \in away

ItemTypes ==
  /\ step \in [Specs -> {"idle", "connect", "resolve", "item", "cwd", "home"}]
  /\ total \in [Specs -> 0..MaxItems]
  /\ pos \in [Specs -> 1..MaxItems+1]
  /\ good \in [Specs -> SUBSET Items]
  /\ bad \in [Specs -> SUBSET Items]
  /\ done \in [Specs -> SUBSET Items]
  /\ line \in [Specs -> Lines]
  /\ away \subseteq Specs

WorkerKept(i) ==
  ItemTypes' /\ ItemsSettled(i)' /\ \A j \in Specs \ {i} : SpecUntouched(j)

LEMMA SettledOnce ==
  ASSUME WorkTypeOK, NEW i \in Specs, ItemsSettled(i), step[i] \in {"item", "cwd", "home"},
         pos[i] <= total[i], NEW result \in BOOLEAN, SettleItem(i, result)
  PROVE  /\ pos' \in [Specs -> 1..MaxItems+1] /\ pos'[i] = pos[i] + 1
         /\ step' \in [Specs -> {"idle", "connect", "resolve", "item", "cwd", "home"}]
         /\ step'[i] = "item"
         /\ good' \in [Specs -> SUBSET Items] /\ bad' \in [Specs -> SUBSET Items]
         /\ good'[i] = IF result THEN good[i] \cup {pos[i]} ELSE good[i]
         /\ good'[i] \cup bad'[i] = 1..pos'[i]-1 /\ good'[i] \cap bad'[i] = {}
         /\ \A j \in Specs \ {i} : /\ pos'[j] = pos[j] /\ step'[j] = step[j]
                                   /\ good'[j] = good[j] /\ bad'[j] = bad[j]
<1> USE WorkAssumption DEF WorkTypeOK, SettleItem, Items
<1>1. /\ pos' \in [Specs -> 1..MaxItems+1] /\ pos'[i] = pos[i] + 1
      /\ step' \in [Specs -> {"idle", "connect", "resolve", "item", "cwd", "home"}]
      /\ step'[i] = "item"
  OBVIOUS
<1>2. good' \in [Specs -> SUBSET Items] /\ bad' \in [Specs -> SUBSET Items]
  OBVIOUS
<1>3. /\ good'[i] = IF result THEN good[i] \cup {pos[i]} ELSE good[i]
      /\ bad'[i] = IF result THEN bad[i] ELSE bad[i] \cup {pos[i]}
  OBVIOUS
<1>4. good[i] \cup bad[i] = 1..pos[i]-1 /\ good[i] \cap bad[i] = {}
  BY DEF ItemsSettled
<1>5. (1..pos[i]-1) \cup {pos[i]} = 1..pos[i] /\ pos[i] \notin 1..pos[i]-1 /\ pos[i] = pos'[i] - 1
  BY <1>1
<1>6. good'[i] \cup bad'[i] = 1..pos'[i]-1 /\ good'[i] \cap bad'[i] = {}
  BY <1>3, <1>4, <1>5
<1>7. \A j \in Specs \ {i} : /\ pos'[j] = pos[j] /\ step'[j] = step[j]
                             /\ good'[j] = good[j] /\ bad'[j] = bad[j]
  OBVIOUS
<1> QED
  BY <1>1, <1>2, <1>3, <1>6, <1>7

LEMMA Happened ==
  ASSUME WorkTypeOK, NEW i \in Specs, pos[i] <= total[i], NEW yes \in BOOLEAN, Happens(i, yes)
  PROVE  /\ done' \in [Specs -> SUBSET Items]
         /\ done'[i] = IF yes THEN done[i] \cup {pos[i]} ELSE done[i]
         /\ \A j \in Specs \ {i} : done'[j] = done[j]
BY WorkAssumption DEF WorkTypeOK, Happens, Items

\* The session, before the first item and after the last.
LEMMA SessionKeeps ==
  ASSUME WorkTypeOK, NEW i \in Specs, ItemsSettled(i), kind' = kind,
         BeginWork(i) \/ OpenSession(i) \/ OpenFails(i) \/ ResolveAll(i) \/ LeaveWork(i)
  PROVE  WorkerKept(i)
<1> USE WorkAssumption DEF WorkTypeOK, EngineTypeOK, Move, Ended
<1>1. CASE BeginWork(i)
  BY <1>1 DEF BeginWork, StartWorker, WorkerKept, ItemTypes, ItemsSettled, SpecUntouched
<1>2. CASE OpenSession(i)
  BY <1>2 DEF OpenSession, engineVars, WorkerKept, ItemTypes, ItemsSettled, SpecUntouched
<1>3. CASE OpenFails(i)
  BY <1>3 DEF OpenFails, EndWorker, WorkerKept, ItemTypes, ItemsSettled, SpecUntouched
<1>4. CASE ResolveAll(i)
  BY <1>4 DEF ResolveAll, Lines, Stale, engineVars, WorkerKept, ItemTypes, ItemsSettled, SpecUntouched
<1>5. CASE LeaveWork(i)
  <2>1. pos[i] = total[i] + 1 /\ thread[i] = "running"
    BY <1>5 DEF LeaveWork, ItemsSettled
  <2>2. 1..pos[i]-1 = 1..total[i]
    BY <2>1
  <2> QED
    BY <1>5, <2>1, <2>2 DEF LeaveWork, EndWorker, WorkerKept, ItemTypes, ItemsSettled, SpecUntouched
<1> QED
  BY <1>1, <1>2, <1>3, <1>4, <1>5

\* An item is settled once, and a result is of an item that is there.
LEMMA ItemDone ==
  ASSUME WorkTypeOK, NEW i \in Specs, ItemsSettled(i), step[i] \in {"item", "cwd", "home"},
         pos[i] <= total[i], UNCHANGED <<engineVars, total, kind>>,
         NEW result \in BOOLEAN, NEW yes \in BOOLEAN, SettleItem(i, result), Happens(i, yes),
         result /\ kind # "size" => yes,
         line' \in [Specs -> Lines], i \notin away', away' \subseteq Specs,
         \A j \in Specs \ {i} : j \in away' <=> j \in away
  PROVE  WorkerKept(i)
<1>1. /\ pos' \in [Specs -> 1..MaxItems+1] /\ pos'[i] = pos[i] + 1
      /\ step' \in [Specs -> {"idle", "connect", "resolve", "item", "cwd", "home"}]
      /\ step'[i] = "item"
      /\ good' \in [Specs -> SUBSET Items] /\ bad' \in [Specs -> SUBSET Items]
      /\ good'[i] = IF result THEN good[i] \cup {pos[i]} ELSE good[i]
      /\ good'[i] \cup bad'[i] = 1..pos'[i]-1 /\ good'[i] \cap bad'[i] = {}
      /\ \A j \in Specs \ {i} : /\ pos'[j] = pos[j] /\ step'[j] = step[j]
                                /\ good'[j] = good[j] /\ bad'[j] = bad[j]
  BY SettledOnce
<1>2. /\ done' \in [Specs -> SUBSET Items]
      /\ done'[i] = IF yes THEN done[i] \cup {pos[i]} ELSE done[i]
      /\ \A j \in Specs \ {i} : done'[j] = done[j]
  BY Happened
<1>3. ItemTypes'
  BY <1>1, <1>2 DEF WorkTypeOK, ItemTypes
<1>4. \A j \in Specs \ {i} : SpecUntouched(j)
  BY <1>1, <1>2 DEF SpecUntouched, engineVars
<1>5. thread[i] = "running"
  BY DEF ItemsSettled
<1>6. kind # "size" => good'[i] \subseteq done'[i]
  BY <1>1, <1>2 DEF ItemsSettled
<1>7. pos'[i] <= total[i] + 1
  BY <1>1, WorkAssumption DEF WorkTypeOK
<1>8. ItemsSettled(i)'
  <2>1. thread'[i] = "running" /\ total' = total /\ kind' = kind /\ step'[i] = "item"
    BY <1>1, <1>5 DEF engineVars
  <2> QED
    BY <1>1, <1>6, <1>7, <2>1 DEF ItemsSettled
<1> QED
  BY <1>3, <1>4, <1>8 DEF WorkerKept

LEMMA TransferKeeps ==
  ASSUME WorkTypeOK, NEW i \in Specs, ItemsSettled(i), kind' = kind, Transfer(i) \/ Measure(i)
  PROVE  WorkerKept(i)
<1>1. step[i] = "item" /\ pos[i] <= total[i] /\ UNCHANGED <<engineVars, total, away>>
  BY DEF Transfer, Measure, InHand
<1>2. i \notin away
  BY <1>1 DEF ItemsSettled
<1>3. PICK result \in BOOLEAN, yes \in BOOLEAN :
        SettleItem(i, result) /\ Happens(i, yes) /\ (result /\ kind # "size" => yes)
  BY DEF Transfer, Measure
<1>4. line' \in [Specs -> Lines]
  BY DEF Transfer, Measure, WorkTypeOK, Lines, Stale
<1> QED
  BY <1>1, <1>2, <1>3, <1>4, ItemDone DEF WorkTypeOK

\* PrefixExists: the last prefix of the item, or one more.
LEMMA PrefixKeeps ==
  ASSUME WorkTypeOK, NEW i \in Specs, ItemsSettled(i), step[i] \in {"item", "cwd", "home"},
         pos[i] <= total[i], UNCHANGED <<engineVars, total, kind, line>>, PrefixExists(i, TRUE),
         i \notin away', away' \subseteq Specs, \A j \in Specs \ {i} : j \in away' <=> j \in away
  PROVE  WorkerKept(i)
<1>1. line' \in [Specs -> Lines]
  BY DEF WorkTypeOK
<1>2. CASE SettleItem(i, TRUE) /\ Happens(i, TRUE)
  BY <1>1, <1>2, ItemDone
<1>3. CASE step' = [step EXCEPT ![i] = "item"] /\ UNCHANGED <<pos, good, bad, done>>
  BY <1>3 DEF WorkTypeOK, WorkerKept, ItemTypes, ItemsSettled, SpecUntouched, engineVars
<1> QED
  BY <1>2, <1>3 DEF PrefixExists

LEMMA MkdirWorkerKeeps ==
  ASSUME WorkTypeOK, NEW i \in Specs, ItemsSettled(i), kind' = kind,
         MakePrefix(i) \/ ProbeRefused(i) \/ ProbeEntered(i) \/ GoHome(i)
  PROVE  WorkerKept(i)
<1>1. CASE MakePrefix(i)
  <2>1. step[i] = "item" /\ pos[i] <= total[i] /\ UNCHANGED <<engineVars, total, away>>
    BY <1>1 DEF MakePrefix, InHand
  <2>2. i \notin away
    BY <2>1 DEF ItemsSettled
  <2>3. CASE PrefixExists(i, i \notin away) /\ UNCHANGED line
    <3>1. PrefixExists(i, TRUE)
      BY <2>2, <2>3 DEF PrefixExists
    <3> QED
      BY <2>1, <2>2, <2>3, <3>1, PrefixKeeps DEF WorkTypeOK
  <2>4. CASE Move(i, "item", "cwd") /\ UNCHANGED <<pos, good, bad, done, line>>
    BY <2>1, <2>2, <2>4 DEF Move, WorkTypeOK, WorkerKept, ItemTypes, ItemsSettled, SpecUntouched, engineVars
  <2>5. CASE /\ \E l \in {line[i], "broken"} : line' = [line EXCEPT ![i] = l]
             /\ SettleItem(i, FALSE)
             /\ \E yes \in BOOLEAN : Happens(i, yes /\ i \notin away)
    <3>1. line' \in [Specs -> Lines]
      BY <2>5 DEF WorkTypeOK, Lines, Stale
    <3>2. PICK yes \in BOOLEAN : Happens(i, yes /\ i \notin away)
      BY <2>5
    <3> DEFINE sure == yes /\ i \notin away
    <3>3. sure \in BOOLEAN /\ Happens(i, sure) /\ SettleItem(i, FALSE)
      BY <2>5, <3>2
    <3> HIDE DEF sure
    <3> QED
      BY <2>1, <2>2, <3>1, <3>3, ItemDone DEF WorkTypeOK
  <2> QED
    BY <1>1, <2>3, <2>4, <2>5 DEF MakePrefix
<1>2. CASE ProbeRefused(i)
  <2>1. /\ step[i] = "cwd" /\ pos[i] <= total[i] /\ i \notin away /\ SettleItem(i, FALSE)
        /\ UNCHANGED <<engineVars, total, done, line, away>>
    BY <1>2 DEF ProbeRefused, ItemsSettled
  <2>2. Happens(i, FALSE)
    BY <2>1 DEF Happens, WorkTypeOK
  <2> QED
    BY <2>1, <2>2, ItemDone DEF WorkTypeOK
<1>3. CASE ProbeEntered(i)
  BY <1>3 DEF ProbeEntered, Move, WorkTypeOK, WorkerKept, ItemTypes, ItemsSettled, SpecUntouched, engineVars
<1>4. CASE GoHome(i)
  <2>1. step[i] = "home" /\ pos[i] <= total[i]
    BY <1>4 DEF GoHome, ItemsSettled
  <2> QED
    BY <1>4, <2>1, PrefixKeeps DEF GoHome, WorkTypeOK
<1> QED
  BY <1>1, <1>2, <1>3, <1>4

LEMMA LoseCwdKeeps ==
  ASSUME WorkTypeOK, NEW i \in Specs, ItemsSettled(i), kind' = kind, ProbeBreaks(i) \/ GoHomeFails(i)
  PROVE  WorkerKept(i)
<1> USE WorkAssumption DEF WorkTypeOK, EngineTypeOK, ProbeBreaks, GoHomeFails, LoseCwd, Move, EndWorker
<1>1. /\ step[i] \in {"cwd", "home"} /\ step'[i] = "idle" /\ thread'[i] = "done"
      /\ bad'[i] = bad[i] \cup (pos[i] .. total[i])
      /\ UNCHANGED <<total, pos, good, done, line>>
  OBVIOUS
<1>2. /\ pos[i] <= total[i] /\ good[i] \cup bad[i] = 1..pos[i]-1 /\ good[i] \cap bad[i] = {}
  BY <1>1 DEF ItemsSettled
<1>3. (1..pos[i]-1) \cup (pos[i]..total[i]) = 1..total[i]
      /\ (1..pos[i]-1) \cap (pos[i]..total[i]) = {}
  BY <1>2
<1>4. good'[i] \cup bad'[i] = 1..total'[i] /\ good'[i] \cap bad'[i] = {}
  BY <1>1, <1>2, <1>3
<1>5. ItemsSettled(i)'
  BY <1>1, <1>4 DEF ItemsSettled
<1>6. bad' \in [Specs -> SUBSET Items]
  <2>1. pos[i]..total[i] \subseteq Items
    BY DEF Items
  <2> QED
    BY <2>1
<1>7. ItemTypes'
  BY <1>6 DEF ItemTypes
<1>8. \A j \in Specs \ {i} : SpecUntouched(j)
  BY DEF SpecUntouched
<1> QED
  BY <1>5, <1>7, <1>8 DEF WorkerKept

LEMMA WorkStepKeeps ==
  ASSUME WorkTypeOK, NEW i \in Specs, ItemsSettled(i), kind' = kind, WorkStep(i)
  PROVE  WorkerKept(i)
BY SessionKeeps, TransferKeeps, MkdirWorkerKeeps, LoseCwdKeeps DEF WorkStep

-----------------------------------------------------------------------------
(* A step of the call, and the request that carries it *)

LEMMA WorkTypeStep ==
  ASSUME WorkInv, [WorkNext]_workVars
  PROVE  WorkTypeOK' /\ EngineInv' /\ \A i \in Specs : ItemsSettled(i)'
<1> USE DEF WorkInv
<1>1. EngineInv'
  BY EngineInvStep, WorkIsEngine
<1>2. EngineTypeOK'
  BY <1>1 DEF EngineInv
<1>3. ASSUME NEW i \in Specs, Up, WorkStep(i), UNCHANGED <<clock, heard, kind, request, harakiri, alive>>
      PROVE  WorkTypeOK' /\ \A j \in Specs : ItemsSettled(j)'
  <2>1. WorkerKept(i)
    BY <1>3, WorkStepKeeps
  <2>2. WorkTypeOK'
    BY <1>2, <1>3, <2>1 DEF WorkerKept, ItemTypes, WorkTypeOK
  <2>3. ASSUME NEW j \in Specs, j # i PROVE ItemsSettled(j)'
    BY <1>3, <2>1, <2>3 DEF WorkerKept, SpecUntouched, ItemsSettled
  <2> QED
    BY <2>1, <2>2, <2>3 DEF WorkerKept
<1>4. ASSUME thread' = thread, kind' = kind, UNCHANGED itemVars
      PROVE  (\A i \in Specs : ItemsSettled(i)') /\ ItemTypes'
  <2>1. ItemTypes
    BY DEF ItemTypes, WorkTypeOK
  <2> QED
    BY <1>4, <2>1 DEF itemVars, ItemsSettled, ItemTypes
<1>5. kind' \in Kinds
  BY DEF WorkNext, workVars, WorkTypeOK
<1>6. CASE CallingThread /\ UNCHANGED <<kind, request, harakiri, clock, alive, itemVars>>
  <2>1. UNCHANGED thread
    BY <1>6 DEF CallingThread, ReturnWork, Collect, TimeOut, Abandon, LeavePool, Interrupt, Return
  <2>2. heard' \in {"nothing", "report", "failure"}
    BY <1>6 DEF CallingThread, ReturnWork, WorkTypeOK
  <2> QED
    BY <1>1, <1>2, <1>4, <1>6, <1>5, <2>1, <2>2 DEF WorkTypeOK, ItemTypes
<1>7. CASE WorkTime /\ UNCHANGED <<kind, request, harakiri, alive, heard, itemVars>>
  <2>1. UNCHANGED thread
    BY <1>7 DEF WorkTime, Tick
  <2>2. clock' \in 0..MaxAge
    BY <1>7, WorkAssumption, EngineAssumption DEF WorkTime, WorkTypeOK, MaxAge
  <2> QED
    BY <1>1, <1>2, <1>4, <1>7, <1>5, <2>1, <2>2 DEF WorkTypeOK, ItemTypes
<1>8. CASE /\ Accept \/ ((Reply \/ Harakiri \/ Recycle \/ Hear \/ HearNothing) /\ UNCHANGED harakiri)
           /\ UNCHANGED <<engineVars, kind, clock, itemVars>>
  <2>1. /\ harakiri' \in Harakiris \cup {0} /\ alive' \in BOOLEAN
        /\ request' \in {"direct", "posted", "serving", "replied", "denied", "killed"}
        /\ heard' \in {"nothing", "report", "failure"}
    BY <1>8 DEF Accept, Reply, Harakiri, Recycle, Hear, HearNothing, WorkTypeOK
  <2> QED
    BY <1>1, <1>2, <1>4, <1>8, <1>5, <2>1 DEF WorkTypeOK, ItemTypes, engineVars
<1>9. CASE UNCHANGED workVars
  <2>1. UNCHANGED <<thread, kind, request, harakiri, clock, alive, heard>> /\ UNCHANGED itemVars
    BY <1>9 DEF workVars, engineVars, httpVars
  <2> QED
    BY <1>1, <1>2, <1>4, <1>5, <2>1 DEF WorkTypeOK, ItemTypes
<1> QED
  BY <1>1, <1>3, <1>6, <1>7, <1>8, <1>9 DEF WorkNext

\* A worker's step starts or ends its own thread, and leaves the caller alone.
LEMMA WorkerAlone ==
  ASSUME EngineTypeOK, NEW i \in Specs, WorkStep(i)
  PROVE  /\ UNCHANGED <<age, main, cursor, verdict>>
         /\ \A j \in Specs : \/ thread'[j] = thread[j]
                             \/ thread[j] = "queued" /\ thread'[j] = "running"
                             \/ thread'[j] \in Ended
BY DEF EngineTypeOK, WorkStep, BeginWork, OpenSession, OpenFails, ResolveAll, Transfer, Measure,
  MakePrefix, ProbeRefused, ProbeEntered, ProbeBreaks, GoHome, GoHomeFails, LoseCwd, LeaveWork,
  engineVars, StartWorker, EndWorker, Ended

LEMMA VerdictStep ==
  ASSUME WorkInv, [WorkNext]_workVars
  PROVE  VerdictAtEnd'
<1>1. EngineTypeOK /\ VerdictAtEnd /\ [EngineNext]_engineVars
  BY WorkIsEngine DEF WorkInv, WorkTypeOK
<1> QED
  BY <1>1, EngineAssumption DEF EngineTypeOK, VerdictAtEnd, EngineNext, engineVars, StartWorker, EndWorker,
    Collect, Settle, TimeOut, Abandon, LeavePool, Interrupt, Return, Tick, Ended, Specs

LEMMA HeardStep ==
  ASSUME WorkInv, [WorkNext]_workVars
  PROVE  HeardAtEnd'
<1> USE EngineAssumption DEF WorkInv, WorkTypeOK, EngineTypeOK, HeardAtEnd
<1>1. ASSUME NEW i \in Specs, WorkStep(i), UNCHANGED <<clock, heard, kind, request, harakiri, alive>>
      PROVE  HeardAtEnd'
  BY <1>1, WorkerAlone
<1>2. CASE CallingThread /\ UNCHANGED <<kind, request, harakiri, clock, alive, itemVars>>
  BY <1>2 DEF CallingThread, ReturnWork, Collect, Settle, TimeOut, Abandon, LeavePool, Interrupt, Return
<1>3. CASE WorkTime /\ UNCHANGED <<kind, request, harakiri, alive, heard, itemVars>>
  BY <1>3 DEF WorkTime, Tick
<1>4. CASE /\ Accept \/ ((Reply \/ Harakiri \/ Recycle \/ Hear \/ HearNothing) /\ UNCHANGED harakiri)
           /\ UNCHANGED <<engineVars, kind, clock, itemVars>>
  BY <1>4 DEF Accept, Reply, Harakiri, Recycle, Hear, HearNothing, engineVars
<1>5. CASE UNCHANGED workVars
  BY <1>5 DEF workVars, engineVars, httpVars
<1> QED
  BY <1>1, <1>2, <1>3, <1>4, <1>5 DEF WorkNext

\* The step where it matters: while a host of the batch still waits for a
\* thread the pool is not full, and while time can pass some host is running
\* that the caller waits for.
LEMMA TimeInStep ==
  ASSUME WorkInv, WorkTime, UNCHANGED request, N <= MaxConcurrency, request = "serving"
  PROVE  ServedInStep'
<1> USE EngineAssumption DEF WorkInv, WorkTypeOK, EngineTypeOK
<1>1. \A i \in Specs : thread[i] # "queued"
  <2> SUFFICES ASSUME NEW i \in Specs, thread[i] = "queued" PROVE FALSE
    OBVIOUS
  <2>1. Cardinality(Running) >= N
    BY RunningFinite DEF WorkTime
  <2>2. IsFiniteSet(Specs) /\ Cardinality(Specs) = N
    BY FS_Interval DEF Specs
  <2>3. Running \subseteq Specs \ {i}
    BY DEF Running
  <2>4. IsFiniteSet(Specs \ {i}) /\ Cardinality(Specs \ {i}) = N - 1
    BY <2>2, FS_RemoveElement
  <2>5. Cardinality(Running) <= N - 1
    BY <2>3, <2>4, FS_Subset
  <2> QED
    BY <2>1, <2>5, RunningFinite
<1>2. \A i \in Specs : thread[i] = "running" => age[i] = clock
  BY DEF ServedInStep
<1>3. main = "collecting" /\ cursor \in Specs
  BY DEF WorkTime, Tick, CollectorReady, Specs
<1>4. thread[cursor] = "running" /\ age[cursor] < HostTimeout
  BY <1>1, <1>3 DEF WorkTime, Tick, CollectorReady
<1>5. clock < HostTimeout /\ clock \in Nat
  BY <1>2, <1>3, <1>4 DEF MaxAge
<1>6. clock' = clock + 1 /\ thread' = thread
  BY DEF WorkTime, Tick
<1>7. \A i \in Specs : thread[i] = "running" => age'[i] = clock + 1
  BY <1>2, <1>5 DEF WorkTime, Tick, MaxAge
<1> QED
  BY <1>1, <1>5, <1>6, <1>7 DEF ServedInStep

LEMMA ServedStep ==
  ASSUME WorkInv, [WorkNext]_workVars
  PROVE  ServedInStep' /\ BackstopFirst'
<1> USE EngineAssumption DEF WorkInv, WorkTypeOK, EngineTypeOK
<1>1. ASSUME NEW i \in Specs, WorkStep(i), UNCHANGED <<clock, heard, kind, request, harakiri, alive>>
      PROVE  ServedInStep' /\ BackstopFirst'
  <2>1. /\ UNCHANGED age
        /\ \A j \in Specs : \/ thread'[j] = thread[j]
                            \/ thread[j] = "queued" /\ thread'[j] = "running"
                            \/ thread'[j] \in Ended
    BY <1>1, WorkerAlone
  <2> QED
    BY <1>1, <2>1 DEF ServedInStep, BackstopFirst, Ended
<1>2. CASE CallingThread /\ UNCHANGED <<kind, request, harakiri, clock, alive, itemVars>>
  <2>1. UNCHANGED <<thread, age>>
    BY <1>2 DEF CallingThread, ReturnWork, Collect, TimeOut, Abandon, LeavePool, Interrupt, Return
  <2> QED
    BY <1>2, <2>1 DEF ServedInStep, BackstopFirst
<1>3. CASE Up /\ WorkTime /\ UNCHANGED <<kind, request, harakiri, alive, heard, itemVars>>
  <2>1. request # "posted"
    BY <1>3 DEF Up
  <2>2. ServedInStep'
    BY <1>3, <2>1, TimeInStep DEF ServedInStep
  <2> QED
    BY <1>3, <2>2 DEF BackstopFirst
<1>4. CASE /\ Accept \/ ((Reply \/ Harakiri \/ Recycle \/ Hear \/ HearNothing) /\ UNCHANGED harakiri)
           /\ UNCHANGED <<engineVars, kind, clock, itemVars>>
  <2>1. request' \in {"posted", "serving"} => request \in {"posted", "serving"}
    BY <1>4 DEF Accept, Reply, Harakiri, Recycle, Hear, HearNothing
  <2>2. ServedInStep'
    BY <1>4, <2>1 DEF ServedInStep, engineVars
  <2>3. CASE Harakiri /\ UNCHANGED harakiri
    BY <2>3 DEF Harakiri, ServedInStep, BackstopFirst, MaxAge
  <2>4. CASE Accept \/ ((Reply \/ Recycle \/ Hear \/ HearNothing) /\ UNCHANGED harakiri)
    <3>1. request' # "killed" \/ UNCHANGED <<request, harakiri>>
      BY <2>4 DEF Accept, Reply, Recycle, Hear, HearNothing
    <3> QED
      BY <2>2, <3>1 DEF BackstopFirst
  <2> QED
    BY <1>4, <2>2, <2>3, <2>4
<1>5. CASE UNCHANGED workVars
  BY <1>5 DEF workVars, engineVars, httpVars, ServedInStep, BackstopFirst
<1> QED
  BY <1>1, <1>2, <1>3, <1>4, <1>5 DEF WorkNext

LEMMA WorkInvStep == WorkInv /\ [WorkNext]_workVars => WorkInv'
BY WorkTypeStep, VerdictStep, HeardStep, ServedStep DEF WorkInv

(* The inductive invariant of a fleet call.                                 *)
THEOREM WorkInvariant == WorkSpec => []WorkInv
BY WorkInvInit, WorkInvStep, PTL DEF WorkSpec

(* To the engine, the workers, the request and its process are steps of its *)
(* own or none: what FleetEngineProofs shows holds of these calls too.      *)
THEOREM WorkImplementsEngine == WorkSpec => EngineSpec
<1>1. WorkInit => EngineInit
  BY DEF WorkInit
<1> QED
  BY <1>1, WorkIsEngine, PTL DEF WorkSpec, EngineSpec

(* A report that is taken settles every item of its spec exactly once, and  *)
(* what it has as listed, stored or made was.                               *)
THEOREM ResultsAreGenuine == WorkSpec => []ResultGenuine
<1>1. WorkInv => ResultGenuine
  BY DEF WorkInv, VerdictAtEnd, ItemsSettled, ResultGenuine
<1> QED
  BY <1>1, WorkInvariant, PTL

(* With a thread for every host of a batch and a budget above host_timeout, *)
(* the downloader answers before uWSGI kills its process.                   *)
THEOREM BackstopComesFirst == WorkSpec => []BackstopFirst
<1>1. WorkInv => BackstopFirst
  BY DEF WorkInv
<1> QED
  BY <1>1, WorkInvariant, PTL

\* Only a running worker changes what is done.
LEMMA DoneByRunning ==
  ASSUME WorkInv, [WorkNext]_workVars, NEW i \in Specs, done'[i] # done[i]
  PROVE  thread[i] = "running"
<1>1. PICK k \in Specs : WorkStep(k)
  BY DEF WorkNext, workVars, itemVars
<1>2. WorkerKept(k)
  <2>1. kind' = kind
    BY DEF WorkNext, workVars
  <2> QED
    BY <1>1, <2>1, WorkStepKeeps DEF WorkInv
<1>3. k = i
  BY <1>2 DEF WorkerKept, SpecUntouched
<1>4. step[i] # "idle"
  BY <1>1, <1>3 DEF WorkStep, BeginWork, OpenSession, OpenFails, ResolveAll, Transfer, Measure, MakePrefix,
    ProbeRefused, ProbeEntered, ProbeBreaks, GoHome, GoHomeFails, LoseCwd, LeaveWork, Move, InHand
<1> QED
  BY <1>4 DEF WorkInv, ItemsSettled

(* Once its caller has heard of a call, only hosts that it was told have    *)
(* failed are still worked on.                                              *)
THEOREM LateMeansFailed == WorkSpec => LateOnlyIfFailed
<1> DEFINE LateStep == \A i \in Specs : heard # "nothing" /\ done'[i] # done[i] =>
                         heard = "failure" \/ verdict[i] = "timeout"
<1>1. WorkInv /\ [WorkNext]_workVars => LateStep
  <2> SUFFICES ASSUME WorkInv, [WorkNext]_workVars, NEW i \in Specs, heard = "report", done'[i] # done[i]
               PROVE  verdict[i] = "timeout"
    BY DEF WorkInv, WorkTypeOK
  <2>1. thread[i] = "running"
    BY DoneByRunning
  <2>2. cursor = N + 1
    BY DEF WorkInv, HeardAtEnd
  <2>3. verdict[i] # "none"
    BY <2>2, EngineAssumption DEF WorkInv, EngineInv, VerdictsBeforeCursor, Specs
  <2> QED
    BY <2>1, <2>3 DEF WorkInv, WorkTypeOK, EngineTypeOK, VerdictAtEnd
<1> QED
  BY <1>1, WorkInvariant, PTL DEF WorkSpec, LateOnlyIfFailed
=============================================================================
