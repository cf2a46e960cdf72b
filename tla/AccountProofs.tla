---------------------------- MODULE AccountProofs ----------------------------
(***************************************************************************)
(* The discovery makes one device of each robot and fits the credentials   *)
(* to the devices, for any number of robots, accounts, forms and reloads;  *)
(* the options of a device change with its form only.                      *)
(*                                                                         *)
(* Two invariants go step by step through the discovery: until Tuya's list *)
(* is merged all devices come from one list (OneList); from the first      *)
(* device on the credentials are its backend's (Fit).                      *)
(***************************************************************************)
EXTENDS EntryOptions, FiniteSetTheorems, TLAPS

-----------------------------------------------------------------------------
(***************************************************************************)
(* Credentials.                                                            *)
(***************************************************************************)
Fit ==
  \A d \in devices :
    /\ d.via = "mega" => credentials = "mega" \/ "megaCredentials" \in refused
    /\ d.via \in {"aiot", "placeholder"} => credentials # "mega"

FitInv ==
  /\ step \in {"login", "user", "credentials"} => credentials = None
  /\ step \in {"login", "user", "credentials", "cloudList", "homeList", "aiotList",
               "megaLogin", "megaList"} => devices = {}
  /\ step \in {"cloudList", "homeList", "aiotList", "megaLogin"} => credentials # "mega"
  /\ step = "megaCredentials" => \A d \in devices : d.via = "mega"
  /\ step \in {"tuyaEU", "tuyaUS", "tuyaList", "done"} => Fit

\* The steps of the login do not touch the devices.
LEMMA LoginKeepsFit ==
  ASSUME FitInv, NEW answered \in BOOLEAN,
         \/ AttemptLogin(answered) \/ GetUserInfo(answered) \/ GetCredentials(answered)
         \/ GetCloudList(answered) \/ GetHomeList(answered) \/ MegaLogin(answered)
  PROVE  FitInv'
<1> USE NoneIsNoLogin DEF FitInv, Fit, Response
<1>1. CASE AttemptLogin(answered)
  BY <1>1 DEF AttemptLogin, TryNext, FirstList
<1>2. CASE GetUserInfo(answered)
  BY <1>2 DEF GetUserInfo, TryNext, FirstList
<1>3. CASE GetCredentials(answered)
  BY <1>3 DEF GetCredentials, FirstList
<1>4. CASE GetCloudList(answered) \/ GetHomeList(answered)
  BY <1>4 DEF GetCloudList, GetHomeList
<1>5. CASE MegaLogin(answered)
  BY <1>5 DEF MegaLogin
<1> QED
  BY <1>1, <1>2, <1>3, <1>4, <1>5

\* The steps that find devices, of one kind each.
LEMMA ListsKeepFit ==
  ASSUME FitInv, NEW answered \in BOOLEAN,
         \/ GetAiotList(answered) \/ GetMegaList(answered) \/ GetMegaCredentials(answered)
         \/ TuyaLogin(answered) \/ GetTuyaList(answered)
  PROVE  FitInv'
<1> USE NoneIsNoLogin DEF FitInv, Fit, Response
<1>1. CASE GetAiotList(answered)
  <2>1. \A d \in devices' : d.via \in {"aiot", "placeholder"}
    BY <1>1 DEF GetAiotList, EufyDevices, Device
  <2> QED
    BY <1>1, <2>1 DEF GetAiotList
<1>2. CASE GetMegaList(answered)
  <2>1. \A d \in devices' : d.via = "mega"
    BY <1>2 DEF GetMegaList, EufyDevices, Device
  <2> QED
    BY <1>2, <2>1 DEF GetMegaList
<1>3. CASE GetMegaCredentials(answered)
  BY <1>3 DEF GetMegaCredentials
<1>4. CASE TuyaLogin(answered)
  BY <1>4 DEF TuyaLogin
<1>5. CASE GetTuyaList(answered)
  <2>1. \A d \in devices' : d \in devices \/ d.via = "tuya"
    BY <1>5 DEF GetTuyaList, StillDevices, Device
  <2>2. Fit /\ step' = "done" /\ credentials' = credentials /\ refused \subseteq refused'
    BY <1>5 DEF GetTuyaList, loginVars
  <2> QED
    BY <2>1, <2>2
<1> QED
  BY <1>1, <1>2, <1>3, <1>4, <1>5

LEMMA FailureKeepsFit == FitInv /\ RequestFails => FitInv'
BY DEF FitInv, Fit, RequestFails

\* A new load begins with nothing.
LEMMA ReloadFits == Reload => FitInv'
BY DEF Reload, FitInv, Fit

LEMMA FitStep == FitInv /\ [Next]_vars => FitInv'
<1> SUFFICES ASSUME FitInv, [Next]_vars PROVE FitInv'
  OBVIOUS
<1>1. CASE Discovers
  BY <1>1, LoginKeepsFit, ListsKeepFit, FailureKeepsFit DEF Discovers, Discover
<1>2. CASE ChangeRest
  BY <1>2, ReloadFits DEF ChangeRest
<1>3. CASE UNCHANGED accountVars
  BY <1>3 DEF FitInv, Fit, accountVars, discovery, loginVars
<1>4. CASE OpenDeviceForm
  BY <1>4, <1>3 DEF OpenDeviceForm
<1>5. ASSUME NEW form \in forms, NEW host \in Hosts \cup {None}, NEW rooms \in BOOLEAN,
             SubmitDeviceForm(form, host, rooms)
      PROVE  FitInv'
  BY <1>5, <1>3, ReloadFits DEF SubmitDeviceForm
<1> QED
  BY <1>1, <1>2, <1>3, <1>4, <1>5 DEF Next, vars

LEMMA FitInvariant == Spec => []FitInv
<1>1. Init => FitInv
  BY DEF Init, AccountInit, Start, FitInv, Fit
<1> QED
  BY <1>1, FitStep, PTL DEF Spec

\* The MQTT credentials are those of the backend that has the robots, after
\* any discovery of any account, whatever was refused (EufyLogin.init).
THEOREM CredentialsStayFit == Spec => []CredentialsFit
<1>1. FitInv => CredentialsFit
  BY DEF FitInv, Fit, CredentialsFit
<1> QED
  BY <1>1, FitInvariant, PTL

-----------------------------------------------------------------------------
(***************************************************************************)
(* Robots and their devices.                                               *)
(***************************************************************************)
LEMMA IdsAreDistinct ==
  /\ \A r, q \in Robots : EufyId(r) = EufyId(q) => r = q
  /\ \A r, q \in Robots : TuyaId(r) = TuyaId(q) => r = q
  /\ \A r, q \in Robots : TuyaId(r) = EufyId(q) => r = q /\ r \in account.sameId
BY DEF EufyId, TuyaId

\* The list all devices come from.
OneList ==
  \/ devices = EufyDevices(account.aiot \cap (listed \cup account.known), "aiot")
  \/ devices = EufyDevices(account.mega \cap account.known, "mega")
  \/ devices = EufyDevices(listed, "placeholder")

Listing == {"login", "user", "credentials", "cloudList", "homeList", "megaLogin", "megaList"}
Merging == {"megaCredentials", "tuyaEU", "tuyaUS", "tuyaList"}

HasConfirmed(r) == \E d \in devices : d.robot = r /\ d.via # "placeholder"

\* What a complete discovery does not miss, up to Tuya's list.
FoundInv ==
  /\ step \in {"megaLogin"} \cup Merging \cup {"done"} /\ userInfo /\ ~token
       /\ "aiotList" \notin refused
       => \A r \in account.aiot \cap account.known : HasConfirmed(r)
  /\ step \in Merging \cup {"done"} /\ refused = {}
       => \A r \in account.mega \cap account.known : HasConfirmed(r)
  /\ step \in Merging /\ listed # {} /\ account.aiot = {}
       => devices = EufyDevices(listed, "placeholder")

ListInv ==
  /\ account \in Accounts
  /\ listed \in {{}, account.home}
  /\ step \in Listing => listed = {}
  /\ step \in Listing \cup {"aiotList"} => devices = {}
  /\ step \in {"megaList", "megaCredentials"} => token
  /\ step \in {"cloudList", "homeList", "aiotList", "megaLogin"} => ~token
  /\ step \in Merging => OneList
  /\ FoundInv

LEMMA ListInit == Init => ListInv
BY DEF Init, AccountInit, Start, ListInv, FoundInv, Listing, Merging

LEMMA LoginKeepsList ==
  ASSUME ListInv, NEW answered \in BOOLEAN,
         \/ AttemptLogin(answered) \/ GetUserInfo(answered) \/ GetCredentials(answered)
         \/ GetCloudList(answered) \/ GetHomeList(answered) \/ MegaLogin(answered)
  PROVE  ListInv'
<1> USE DEF ListInv, FoundInv, Listing, Merging, Response
<1>1. CASE AttemptLogin(answered)
  BY <1>1 DEF AttemptLogin, TryNext, FirstList
<1>2. CASE GetUserInfo(answered)
  BY <1>2 DEF GetUserInfo, TryNext, FirstList
<1>3. CASE GetCredentials(answered)
  BY <1>3 DEF GetCredentials, FirstList, loginVars
<1>4. CASE GetCloudList(answered) \/ GetHomeList(answered)
  <2>1. account.cloud \in {{}, account.home}
    BY AccountTypeOK
  <2>2. CASE GetCloudList(answered)
    BY <2>1, <2>2 DEF GetCloudList, loginVars
  <2>3. CASE GetHomeList(answered)
    BY <2>3 DEF GetHomeList, loginVars
  <2> QED
    BY <1>4, <2>2, <2>3
<1>5. CASE MegaLogin(answered)
  <2>1. devices' = {} /\ listed' = {} /\ token' = answered /\ UNCHANGED <<account, userInfo>>
    BY <1>5 DEF MegaLogin, loginVars
  <2>2. OneList'
    BY <2>1 DEF OneList, EufyDevices
  <2>3. CASE answered
    BY <1>5, <2>1, <2>3 DEF MegaLogin
  <2>4. CASE ~answered
    <3>1. step' = "tuyaEU" /\ refused' # {} /\ "aiotList" \notin refused' => "aiotList" \notin refused
      BY <1>5, <2>1, <2>4 DEF MegaLogin
    <3> QED
      BY <1>5, <2>1, <2>2, <2>4, <3>1 DEF MegaLogin, HasConfirmed
  <2> QED
    BY <2>3, <2>4
<1> QED
  BY <1>1, <1>2, <1>3, <1>4, <1>5

LEMMA AiotListKeepsList ==
  ASSUME ListInv, NEW answered \in BOOLEAN, GetAiotList(answered)
  PROVE  ListInv'
<1> USE DEF ListInv
<1> DEFINE found == IF answered /\ userInfo THEN account.aiot ELSE {}
<1>1. /\ UNCHANGED <<account, listed, userInfo, token>> /\ ~token
      /\ step' = IF devices' = {} /\ listed = {} THEN "megaLogin" ELSE "tuyaEU"
      /\ devices' = IF found = {} THEN EufyDevices(listed, "placeholder")
                    ELSE EufyDevices(found \cap (listed \cup account.known), "aiot")
  BY DEF GetAiotList, Response, loginVars
<1>2. OneList'
  BY <1>1 DEF OneList, EufyDevices, Device, EufyId
<1>3. ASSUME userInfo, "aiotList" \notin refused',
             NEW r \in account.aiot \cap account.known
      PROVE  HasConfirmed(r)'
  <2>1. answered
    BY <1>3 DEF GetAiotList, Response
  <2>2. Device(r, EufyId(r), "aiot") \in devices'
    BY <1>1, <1>3, <2>1 DEF EufyDevices
  <2>3. Device(r, EufyId(r), "aiot").robot = r
    BY DEF Device
  <2>4. Device(r, EufyId(r), "aiot").via # "placeholder"
    BY DEF Device
  <2> QED
    BY <2>2, <2>3, <2>4 DEF HasConfirmed
<1>4. step' = "tuyaEU" => account.mega = {}
  <2>1. account.mega # {} => account.aiot = {} /\ account.home = {}
    BY AccountTypeOK
  <2>2. account.aiot = {} /\ account.home = {} => listed = {} /\ devices' = {}
    BY <1>1 DEF EufyDevices
  <2> QED
    BY <1>1, <2>1, <2>2
<1>5. account.aiot = {} => devices' = EufyDevices(listed, "placeholder")
  BY <1>1
<1>6. FoundInv'
  BY <1>1, <1>3, <1>4, <1>5 DEF FoundInv, Merging, EufyDevices, Device, EufyId
<1> QED
  BY <1>1, <1>2, <1>6 DEF Listing, Merging

LEMMA MegaListKeepsList ==
  ASSUME ListInv, NEW answered \in BOOLEAN, GetMegaList(answered)
  PROVE  ListInv'
<1> USE DEF ListInv
<1>1. /\ UNCHANGED <<account, userInfo, token>> /\ listed' = {} /\ token
      /\ step' = IF devices' = {} THEN "tuyaEU" ELSE "megaCredentials"
      /\ devices' = EufyDevices(IF answered THEN account.mega \cap account.known ELSE {},
                                "mega")
  BY DEF GetMegaList, Response, loginVars
<1>2. OneList'
  BY <1>1 DEF OneList, EufyDevices, Device, EufyId
<1>3. ASSUME refused' = {}, NEW r \in account.mega \cap account.known
      PROVE  HasConfirmed(r)'
  <2>1. answered
    BY <1>3 DEF GetMegaList, Response
  <2>2. Device(r, EufyId(r), "mega") \in devices'
    BY <1>1, <1>3, <2>1 DEF EufyDevices
  <2>3. Device(r, EufyId(r), "mega").robot = r
    BY DEF Device
  <2>4. Device(r, EufyId(r), "mega").via # "placeholder"
    BY DEF Device
  <2> QED
    BY <2>2, <2>3, <2>4 DEF HasConfirmed
<1>4. FoundInv'
  BY <1>1, <1>3 DEF FoundInv, Merging
<1> QED
  BY <1>1, <1>2, <1>4 DEF Listing, Merging

\* The pairs of devices that OnePerRobot allows.
Apart(d, e) ==
  d.robot = e.robot /\ d # e =>
    /\ d.robot \notin account.sameId
    /\ AccountRobots = {d.robot} =>
         \/ d.robot \notin account.keyed
         \/ \E x \in DevicesOf(d.robot) : x.via \in {"aiot", "mega"}

DoneInv ==
  step = "done" =>
    /\ \A d, e \in devices : Apart(d, e)
    /\ refused = {} => \A r \in account.known \cap account.tuya : HasDevice(r)
    /\ account.aiot = {} /\ account.tuya \subseteq account.home =>
         \A r \in account.known \cap listed : HasDevice(r)

\* One list has one device of each robot.
LEMMA OneListIsApart ==
  ASSUME OneList, NEW d \in devices, NEW e \in devices, d.robot = e.robot
  PROVE  d = e
<1>1. PICK via \in {"aiot", "mega", "placeholder"} :
        /\ d = Device(d.robot, EufyId(d.robot), via)
        /\ e = Device(e.robot, EufyId(e.robot), via)
  BY DEF OneList, EufyDevices, Device
<1> QED
  BY <1>1

\* The discovery may end before Tuya's list came, with all devices of one list.
LEMMA EarlyEnd ==
  ASSUME ListInv, step \in Merging, UNCHANGED <<account, listed, devices>>, refused' # {}
  PROVE  DoneInv'
<1>1. \A d, e \in devices : Apart(d, e)'
  BY OneListIsApart DEF ListInv, Apart
<1>2. ASSUME account.aiot = {}, NEW r \in account.known \cap listed
      PROVE  HasDevice(r)
  <2>1. Device(r, EufyId(r), "placeholder") \in devices
    BY <1>2 DEF ListInv, FoundInv, EufyDevices
  <2>2. Device(r, EufyId(r), "placeholder").robot = r
    BY DEF Device
  <2> QED
    BY <2>1, <2>2 DEF HasDevice, DevicesOf
<1>3. \A r : HasDevice(r)' <=> HasDevice(r)
  BY DEF HasDevice, DevicesOf
<1> QED
  BY <1>1, <1>2, <1>3 DEF DoneInv

LEMMA EndingsKeepList ==
  ASSUME ListInv, DoneInv, NEW answered \in BOOLEAN,
         GetMegaCredentials(answered) \/ TuyaLogin(answered) \/ RequestFails
  PROVE  ListInv' /\ DoneInv'
<1>1. UNCHANGED <<account, userInfo, token, listed, devices>>
  BY DEF GetMegaCredentials, TuyaLogin, RequestFails, Response, loginVars
<1>2. /\ step' \in {"tuyaEU", "tuyaUS", "tuyaList", "done"} => step \in Merging
      /\ step' \in Merging \cup {"done", "failed"}
      /\ step' # "megaCredentials"
      /\ refused \subseteq refused'
  BY DEF GetMegaCredentials, TuyaLogin, RequestFails, Response, Merging
<1>3. \A r : HasConfirmed(r)' <=> HasConfirmed(r)
  BY <1>1 DEF HasConfirmed
<1>4. OneList' <=> OneList
  BY <1>1 DEF OneList, EufyDevices, Device, EufyId
<1>5. EufyDevices(listed, "placeholder")' = EufyDevices(listed, "placeholder")
  BY <1>1 DEF EufyDevices, Device, EufyId
<1>6. ListInv'
  BY <1>1, <1>2, <1>3, <1>4, <1>5 DEF ListInv, FoundInv, Listing, Merging
<1>7. step' = "done" => refused' # {}
  BY DEF GetMegaCredentials, TuyaLogin, RequestFails, Response
<1>8. DoneInv'
  <2>1. CASE step' = "done"
    BY <2>1, <1>1, <1>2, <1>7, EarlyEnd
  <2> QED
    BY <2>1 DEF DoneInv
<1> QED
  BY <1>6, <1>8

\* Tuya's list merged with the one there was.
Cloud == {Device(r, TuyaId(r), "tuya") : r \in TuyaFound}
Merged == StillDevices(Cloud) \cup Cloud

LEMMA ListShape ==
  ASSUME ListInv, OneList, NEW d \in devices
  PROVE  /\ d.robot \in AccountRobots /\ d.robot \in Robots
         /\ d.id = EufyId(d.robot) /\ d.via \in {"aiot", "mega", "placeholder"}
         /\ d.via = "placeholder" => d.robot \in listed /\ devices = EufyDevices(listed, "placeholder")
<1>1. account.aiot \subseteq Robots /\ account.mega \subseteq Robots /\ account.home \subseteq Robots
  BY AccountTypeOK DEF ListInv
<1>2. listed \subseteq account.home
  BY DEF ListInv
<1>3. CASE devices = EufyDevices(account.aiot \cap (listed \cup account.known), "aiot")
  BY <1>1, <1>3 DEF EufyDevices, Device, AccountRobots
<1>4. CASE devices = EufyDevices(account.mega \cap account.known, "mega")
  BY <1>1, <1>4 DEF EufyDevices, Device, AccountRobots
<1>5. CASE devices = EufyDevices(listed, "placeholder")
  BY <1>1, <1>2, <1>5 DEF EufyDevices, Device, AccountRobots
<1> QED
  BY <1>3, <1>4, <1>5 DEF OneList

LEMMA CloudShape ==
  ASSUME ListInv, NEW c \in Cloud
  PROVE  /\ c.robot \in TuyaFound /\ c.robot \in Robots /\ c.robot \in account.tuya
         /\ c.id = TuyaId(c.robot) /\ c.via = "tuya"
         /\ c = Device(c.robot, TuyaId(c.robot), "tuya")
         /\ c.keyed <=> c.robot \in account.keyed
<1>1. PICK r \in TuyaFound : c = Device(r, TuyaId(r), "tuya")
  BY DEF Cloud
<1>2. c.robot = r /\ c.id = TuyaId(r) /\ c.via = "tuya" /\ (c.keyed <=> r \in account.keyed)
  BY <1>1 DEF Device
<1>3. r \in account.tuya /\ account.tuya \subseteq Robots
  BY AccountTypeOK DEF TuyaFound, ListInv
<1> QED
  BY <1>1, <1>2, <1>3

\* What the merge keeps of the list: all that is confirmed.
LEMMA StillShape ==
  /\ StillDevices(Cloud) \subseteq devices
  /\ devices \ Placeholders \subseteq StillDevices(Cloud)
  /\ \A d \in StillDevices(Cloud), r \in account.tuya : d \in Placeholders => d.id # TuyaId(r)
<1> DEFINE superseded == {d \in Placeholders : d.id \in {TuyaId(r) : r \in account.tuya}}
           leftover == {d \in Placeholders : d.id \notin Ids(Cloud)}
<1>1. StillDevices(Cloud) \in
        {IF superseded # {} THEN devices \ superseded ELSE devices,
         IF superseded # {} THEN devices \ superseded ELSE devices \ leftover}
  BY DEF StillDevices
<1>2. superseded \subseteq Placeholders /\ leftover \subseteq Placeholders
  OBVIOUS
<1>3. StillDevices(Cloud) \cap superseded = {}
  BY <1>1
<1> QED
  BY <1>1, <1>2, <1>3 DEF Placeholders

\* A device of the list and one of Tuya for the same robot.
LEMMA MergedPair ==
  ASSUME ListInv, OneList, NEW d \in StillDevices(Cloud), NEW c \in Cloud,
         d.robot = c.robot
  PROVE  /\ d.robot \notin account.sameId
         /\ AccountRobots = {d.robot} =>
              d.robot \notin account.keyed \/ d.via \in {"aiot", "mega"}
<1> DEFINE r == d.robot
<1>1. d \in devices /\ d.id = EufyId(r) /\ r \in Robots /\ c.id = TuyaId(r) /\ r \in account.tuya
      /\ r \in TuyaFound
  BY StillShape, ListShape, CloudShape
<1>2. r \notin account.sameId
  <2>1. SUFFICES ASSUME r \in account.sameId PROVE FALSE
    OBVIOUS
  <2>2. d.id = TuyaId(r)
    BY <1>1, <2>1 DEF TuyaId
  <2>3. CASE d \in Placeholders
    BY <1>1, <2>2, <2>3, StillShape
  <2>4. CASE d \notin Placeholders
    <3>1. TuyaId(r) \in Ids(devices \ Placeholders)
      BY <1>1, <2>2, <2>4 DEF Ids
    <3> QED
      BY <1>1, <3>1 DEF TuyaFound
  <2> QED
    BY <2>3, <2>4
<1>3. ASSUME AccountRobots = {r}, r \in account.keyed, d.via = "placeholder"
      PROVE  FALSE
  <2> DEFINE superseded == {e \in Placeholders : e.id \in {TuyaId(q) : q \in account.tuya}}
             leftover == {e \in Placeholders : e.id \notin Ids(Cloud)}
             keyed == {e \in Cloud : e.keyed}
  <2>1. d \in Placeholders
    BY <1>1, <1>3 DEF Placeholders
  <2>2. \A e \in devices : e = d
    BY <1>1, <1>3, ListShape, OneListIsApart
  <2>3. account.tuya = {r}
    BY <1>1, <1>3 DEF AccountRobots
  <2>4. \A e \in Cloud : e = c
    BY <2>3, <1>1, CloudShape
  <2>5. d.id # TuyaId(r)
    BY <2>1, <1>1, StillShape
  <2>6. superseded = {}
    <3>1. \A e \in Placeholders : e = d
      BY <2>2 DEF Placeholders
    <3> QED
      BY <3>1, <2>3, <2>5
  <2>7. leftover = {d}
    <3>1. \A e \in Placeholders : e = d
      BY <2>2 DEF Placeholders
    <3>2. d.id \notin Ids(Cloud)
      BY <2>4, <2>5, <1>1 DEF Ids
    <3> QED
      BY <3>1, <3>2, <2>1
  <2>8. keyed = {c}
    <3>1. c.keyed
      BY <1>3, CloudShape
    <3> QED
      BY <3>1, <2>4
  <2>9. Cardinality(leftover) = 1 /\ Cardinality(keyed) = 1
    BY <2>7, <2>8, FS_Singleton
  <2>10. StillDevices(Cloud) = devices \ leftover
    BY <2>6, <2>9 DEF StillDevices
  <2> QED
    BY <2>7, <2>10
<1> QED
  BY <1>1, <1>2, <1>3, ListShape

\* Every robot of known model that Tuya lists is among the merged devices.
LEMMA MergedHasTuya ==
  ASSUME ListInv, OneList, NEW r \in account.known \cap account.tuya
  PROVE  \E d \in Merged : d.robot = r
<1>1. r \in Robots /\ \A d \in devices : d.robot \in Robots /\ d.id = EufyId(d.robot)
  BY ListShape, AccountTypeOK DEF ListInv
<1>2. CASE TuyaId(r) \in Ids(devices \ Placeholders)
  <2>1. PICK d \in devices \ Placeholders : d.id = TuyaId(r)
    BY <1>2 DEF Ids
  <2>2. d.robot = r
    BY <2>1, <1>1, IdsAreDistinct
  <2> QED
    BY <2>1, <2>2, StillShape DEF Merged
<1>3. CASE TuyaId(r) \notin Ids(devices \ Placeholders)
  <2>1. r \in TuyaFound
    BY <1>3 DEF TuyaFound
  <2>2. Device(r, TuyaId(r), "tuya") \in Cloud /\ Device(r, TuyaId(r), "tuya").robot = r
    BY <2>1 DEF Cloud, Device
  <2> QED
    BY <2>2 DEF Merged
<1> QED
  BY <1>2, <1>3

\* A listed robot keeps its placeholder or has its Tuya device, when Tuya knows
\* no others.
LEMMA MergedHasListed ==
  ASSUME ListInv, OneList, devices = EufyDevices(listed, "placeholder"),
         account.tuya \subseteq account.home, NEW r \in account.known \cap listed
  PROVE  \E d \in Merged : d.robot = r
<1> DEFINE superseded == {e \in Placeholders : e.id \in {TuyaId(q) : q \in account.tuya}}
           leftover == {e \in Placeholders : e.id \notin Ids(Cloud)}
           keyed == {e \in Cloud : e.keyed}
           mine == Device(r, EufyId(r), "placeholder")
<1>1. \A q \in listed : /\ Device(q, EufyId(q), "placeholder") \in devices
                        /\ Device(q, EufyId(q), "placeholder") \in Placeholders
  BY DEF EufyDevices, Placeholders, Device
<1>2. mine.robot = r /\ mine.id = EufyId(r) /\ r \in Robots
  BY AccountTypeOK DEF Device, ListInv
<1>3. SUFFICES ASSUME r \notin account.tuya PROVE mine \in StillDevices(Cloud)
  BY <1>2, MergedHasTuya DEF Merged
<1>4. mine \notin superseded
  <2>1. ASSUME NEW q \in account.tuya PROVE EufyId(r) # TuyaId(q)
    <3>1. q \in Robots
      BY AccountTypeOK DEF ListInv
    <3> QED
      BY <3>1, <1>2, <1>3, IdsAreDistinct
  <2> QED
    BY <1>2, <2>1
<1>5. CASE superseded # {}
  BY <1>1, <1>4, <1>5 DEF StillDevices
<1>6. CASE superseded = {} /\ ~(Cardinality(leftover) = 1 /\ Cardinality(keyed) = 1)
  BY <1>1, <1>6 DEF StillDevices
<1>7. CASE superseded = {} /\ Cardinality(leftover) = 1 /\ Cardinality(keyed) = 1
  <2>1. PICK c \in keyed : TRUE
    BY <1>7, FS_EmptySet
  <2> DEFINE q == c.robot
             other == Device(q, EufyId(q), "placeholder")
  <2>2. q \in account.tuya /\ q \in Robots
    BY <2>1, CloudShape
  <2>3. q \in listed
    BY <2>2, <1>3 DEF ListInv
  <2>4. other \in Placeholders /\ mine \in Placeholders
    BY <2>3, <1>1
  <2>5. \A e \in Placeholders : e.id \notin Ids(Cloud)
    <3>1. ASSUME NEW e \in Placeholders, NEW x \in Cloud, x.id = e.id PROVE FALSE
      <4>1. x.robot \in account.tuya /\ x.id = TuyaId(x.robot)
        BY CloudShape
      <4> QED
        BY <4>1, <3>1, <1>7
    <3> QED
      BY <3>1 DEF Ids
  <2>6. other \in leftover /\ mine \in leftover
    BY <2>4, <2>5
  <2>7. other # mine
    BY <2>2, <1>3 DEF Device
  <2>8. PICK x : leftover = {x}
    <3>1. IsFiniteSet(listed)
      <4>1. listed \subseteq Robots
        BY AccountTypeOK DEF ListInv
      <4> QED
        BY <4>1, RobotsAreFinite, FS_Subset
    <3>2. IsFiniteSet(devices)
      <4> DEFINE f == [p \in listed |-> Device(p, EufyId(p), "placeholder")]
      <4>1. f \in Surjection(listed, devices)
        BY DEF Surjection, EufyDevices
      <4> QED
        BY <3>1, <4>1, FS_Surjection
    <3>3. leftover \subseteq devices
      BY DEF Placeholders
    <3>4. IsFiniteSet(leftover)
      BY <3>2, <3>3, FS_Subset
    <3> QED
      BY <3>4, <1>7, FS_Singleton
  <2> QED
    BY <2>6, <2>7, <2>8
<1> QED
  BY <1>5, <1>6, <1>7

LEMMA TuyaListKeepsList ==
  ASSUME ListInv, NEW answered \in BOOLEAN, GetTuyaList(answered)
  PROVE  ListInv' /\ DoneInv'
<1>1. /\ UNCHANGED <<account, listed, userInfo, token>>
      /\ step = "tuyaList" /\ step' = "done"
      /\ OneList /\ refused \subseteq refused'
  BY DEF GetTuyaList, Response, loginVars, ListInv, Merging
<1>2. CASE ~answered
  <2>1. UNCHANGED devices /\ refused' # {}
    BY <1>2 DEF GetTuyaList, Response
  <2>2. \A r : HasConfirmed(r)' <=> HasConfirmed(r)
    BY <2>1 DEF HasConfirmed
  <2>3. ListInv'
    BY <1>1, <2>1, <2>2 DEF ListInv, FoundInv, Listing, Merging
  <2> QED
    BY <1>1, <2>1, <2>3, EarlyEnd DEF Merging
<1>3. CASE answered
  <2>1. devices' = Merged /\ refused' = refused
    BY <1>3 DEF GetTuyaList, Response, Merged, Cloud
  <2>2. \A r : HasConfirmed(r) => HasConfirmed(r)'
    BY <2>1, StillShape DEF HasConfirmed, Merged, Placeholders
  <2>3. ListInv'
    BY <1>1, <2>1, <2>2 DEF ListInv, FoundInv, Listing, Merging
  <2>4. ASSUME NEW d \in devices', NEW e \in devices', d.robot = e.robot, d # e
        PROVE  Apart(d, e)'
    <3>1. \/ d \in StillDevices(Cloud) /\ e \in Cloud
          \/ e \in StillDevices(Cloud) /\ d \in Cloud
      <4>1. ~(d \in Cloud /\ e \in Cloud)
        BY <2>4, CloudShape
      <4>2. ~(d \in StillDevices(Cloud) /\ e \in StillDevices(Cloud))
        BY <2>4, <1>1, StillShape, OneListIsApart
      <4> QED
        BY <4>1, <4>2, <2>1 DEF Merged
    <3>2. PICK x \in StillDevices(Cloud) :
            /\ x.robot = d.robot
            /\ d.robot \notin account.sameId
            /\ AccountRobots = {d.robot} =>
                 d.robot \notin account.keyed \/ x.via \in {"aiot", "mega"}
      BY <3>1, <2>4, <1>1, MergedPair
    <3>3. x \in DevicesOf(d.robot)'
      BY <3>2, <2>1 DEF DevicesOf, Merged
    <3>4. AccountRobots' = AccountRobots
      BY <1>1 DEF AccountRobots
    <3> QED
      BY <3>2, <3>3, <3>4, <1>1 DEF Apart
  <2>5. \A r \in account.known \cap account.tuya : HasDevice(r)'
    BY <1>1, <2>1, MergedHasTuya DEF HasDevice, DevicesOf
  <2>6. ASSUME account.aiot = {}, account.tuya \subseteq account.home,
               NEW r \in account.known \cap listed
        PROVE  HasDevice(r)'
    <3>1. devices = EufyDevices(listed, "placeholder")
      BY <1>1, <2>6 DEF ListInv, FoundInv, Merging
    <3> QED
      BY <1>1, <2>1, <2>6, <3>1, MergedHasListed DEF HasDevice, DevicesOf
  <2>7. DoneInv'
    BY <1>1, <2>4, <2>5, <2>6 DEF DoneInv, Apart
  <2> QED
    BY <2>3, <2>7
<1> QED
  BY <1>2, <1>3

LEMMA ReloadLists == ListInv /\ Reload => ListInv' /\ DoneInv'
BY DEF Reload, ListInv, DoneInv, FoundInv, Listing, Merging

LEMMA StepsBeforeTuya ==
  ASSUME NEW answered \in BOOLEAN,
         \/ AttemptLogin(answered) \/ GetUserInfo(answered) \/ GetCredentials(answered)
         \/ GetCloudList(answered) \/ GetHomeList(answered) \/ MegaLogin(answered)
         \/ GetAiotList(answered) \/ GetMegaList(answered)
  PROVE  DoneInv'
<1>1. step' # "done"
  BY DEF AttemptLogin, GetUserInfo, TryNext, FirstList, GetCredentials, GetCloudList, GetHomeList,
         MegaLogin, GetAiotList, GetMegaList
<1> QED
  BY <1>1 DEF DoneInv

LEMMA ListStep == ListInv /\ DoneInv /\ [Next]_vars => ListInv' /\ DoneInv'
<1> SUFFICES ASSUME ListInv, DoneInv, [Next]_vars PROVE ListInv' /\ DoneInv'
  OBVIOUS
<1>1. CASE Discovers
  BY <1>1, LoginKeepsList, AiotListKeepsList, MegaListKeepsList, EndingsKeepList,
     TuyaListKeepsList, StepsBeforeTuya DEF Discovers, Discover
<1>2. CASE ChangeRest
  BY <1>2, ReloadLists DEF ChangeRest
<1>3. CASE UNCHANGED accountVars
  <2>1. UNCHANGED <<account, step, userInfo, token, listed, devices, refused>>
    BY <1>3 DEF accountVars, discovery, loginVars
  <2>2. \A r : (HasConfirmed(r)' <=> HasConfirmed(r)) /\ (HasDevice(r)' <=> HasDevice(r))
    BY <2>1 DEF HasConfirmed, HasDevice, DevicesOf
  <2>3. (OneList' <=> OneList) /\ EufyDevices(listed, "placeholder")' = EufyDevices(listed, "placeholder")
    BY <2>1 DEF OneList, EufyDevices, Device, EufyId
  <2>4. ListInv'
    BY <2>1, <2>2, <2>3 DEF ListInv, FoundInv, Listing, Merging
  <2>5. \A d, e : Apart(d, e) => Apart(d, e)'
    BY <2>1 DEF Apart, AccountRobots, DevicesOf
  <2>6. DoneInv'
    BY <2>1, <2>2, <2>5 DEF DoneInv
  <2> QED
    BY <2>4, <2>6
<1>4. CASE OpenDeviceForm
  BY <1>4, <1>3 DEF OpenDeviceForm
<1>5. ASSUME NEW form \in forms, NEW host \in Hosts \cup {None}, NEW rooms \in BOOLEAN,
             SubmitDeviceForm(form, host, rooms)
      PROVE  ListInv' /\ DoneInv'
  BY <1>5, <1>3, ReloadLists DEF SubmitDeviceForm
<1> QED
  BY <1>1, <1>2, <1>3, <1>4, <1>5 DEF Next, vars

LEMMA ListInvariant == Spec => [](ListInv /\ DoneInv)
<1>1. Init => ListInv /\ DoneInv
  BY ListInit DEF Init, AccountInit, Start, DoneInv
<1> QED
  BY <1>1, ListStep, PTL DEF Spec

\* A robot becomes one device, as far as its ids and Tuya's keys let the code
\* tell (getCloudDevices).
THEOREM RobotsStayWhole == Spec => []OnePerRobot
<1>1. ASSUME DoneInv, step = "done", NEW r \in Robots, Cardinality(DevicesOf(r)) > 1
      PROVE  /\ r \notin account.sameId
             /\ AccountRobots = {r} =>
                  r \notin account.keyed \/ \E d \in DevicesOf(r) : d.via \in {"aiot", "mega"}
  <2>1. PICK d \in DevicesOf(r) : TRUE
    BY <1>1, FS_EmptySet
  <2>2. PICK e \in DevicesOf(r) : e # d
    <3>1. SUFFICES ASSUME DevicesOf(r) = {d} PROVE FALSE
      BY <2>1
    <3>2. Cardinality(DevicesOf(r)) = 1
      BY <3>1, FS_Singleton
    <3> QED
      BY <3>2, <1>1
  <2>3. d.robot = r /\ e.robot = r /\ Apart(d, e)
    BY <1>1, <2>1, <2>2 DEF DevicesOf, DoneInv
  <2> QED
    BY <2>2, <2>3 DEF Apart
<1>2. DoneInv => OnePerRobot
  BY <1>1 DEF OnePerRobot
<1> QED
  BY <1>2, ListInvariant, PTL

-----------------------------------------------------------------------------
(***************************************************************************)
(* No robot is lost.                                                       *)
(***************************************************************************)
\* A login that was not refused anything has no user information only when no
\* login gives any.
LoginInv ==
  /\ tried \in 0..2
  /\ {session, fallback} \subseteq {None, "v1", "v2"}
  /\ account \in Accounts
  /\ step \in {"login", "user"} => ~userInfo /\ tried < 2
  /\ step = "user" => session = Logins[tried + 1]
  /\ refused = {} =>
       /\ step \in {"login", "user"} =>
            \A i \in 1..2 : i <= tried => Logins[i] \notin account.userCenter
       /\ step \notin {"login", "user", "failed"} =>
            (userInfo <=> account.userCenter # {})

LEMMA LoginStep ==
  ASSUME LoginInv, NEW answered \in BOOLEAN,
         AttemptLogin(answered) \/ GetUserInfo(answered)
  PROVE  LoginInv'
<1> USE DEF LoginInv
<1>1. \A v \in account.userCenter : v = "v1" \/ v = "v2"
  BY AccountTypeOK
<1>2. Len(Logins) = 2 /\ Logins[1] = "v2" /\ Logins[2] = "v1"
  BY DEF Logins
<1>3. CASE AttemptLogin(answered)
  <2>1. CASE answered
    BY <1>2, <1>3, <2>1 DEF AttemptLogin, Response
  <2>2. CASE ~answered
    BY <1>2, <1>3, <2>2 DEF AttemptLogin, Response, TryNext, FirstList
  <2> QED
    BY <2>1, <2>2
<1>4. CASE GetUserInfo(answered)
  <2>1. CASE answered /\ session \in account.userCenter
    BY <1>2, <1>4, <2>1 DEF GetUserInfo, Response
  <2>2. CASE ~(answered /\ session \in account.userCenter)
    <3>1. refused' = {} => session \notin account.userCenter
      BY <1>4, <2>2 DEF GetUserInfo, Response
    <3> QED
      BY <1>1, <1>2, <1>4, <2>2, <3>1 DEF GetUserInfo, Response, TryNext, FirstList
  <2> QED
    BY <2>1, <2>2
<1> QED
  BY <1>3, <1>4

\* Later requests leave the login as it is.
LEMMA LaterKeepsLogin ==
  ASSUME LoginInv, step \notin {"login", "user"}, UNCHANGED <<account, loginVars>>,
         refused \subseteq refused', step' \notin {"login", "user"},
         step = "failed" => step' = "failed"
  PROVE  LoginInv'
BY DEF LoginInv, loginVars

LEMMA LoginInvStep == LoginInv /\ [Next]_vars => LoginInv'
<1> SUFFICES ASSUME LoginInv, [Next]_vars PROVE LoginInv'
  OBVIOUS
<1>1. CASE Discovers
  <2>1. ASSUME NEW answered \in BOOLEAN,
               \/ GetCredentials(answered) \/ GetCloudList(answered)
               \/ GetHomeList(answered) \/ GetAiotList(answered)
               \/ MegaLogin(answered) \/ GetMegaList(answered)
               \/ GetMegaCredentials(answered) \/ TuyaLogin(answered) \/ GetTuyaList(answered)
        PROVE  LoginInv'
    <3>1. /\ step \notin {"login", "user", "failed"} /\ step' \notin {"login", "user", "failed"}
          /\ UNCHANGED <<account, loginVars>> /\ refused \subseteq refused'
      BY <2>1 DEF Response, FirstList, GetCredentials, GetCloudList, GetHomeList,
                  GetAiotList, MegaLogin,
                  GetMegaList, GetMegaCredentials, TuyaLogin, GetTuyaList
    <3> QED
      BY <3>1, LaterKeepsLogin
  <2>2. CASE RequestFails
    BY <2>2 DEF RequestFails, LoginInv, loginVars
  <2> QED
    BY <1>1, <2>1, <2>2, LoginStep DEF Discovers, Discover
<1>2. ASSUME Reload PROVE LoginInv'
  BY <1>2 DEF Reload, LoginInv
<1>3. CASE UNCHANGED accountVars
  BY <1>3 DEF LoginInv, accountVars, discovery, loginVars
<1>4. CASE ChangeRest
  BY <1>4, <1>2 DEF ChangeRest
<1>5. CASE OpenDeviceForm
  BY <1>5, <1>3 DEF OpenDeviceForm
<1>6. ASSUME NEW form \in forms, NEW host \in Hosts \cup {None}, NEW rooms \in BOOLEAN,
             SubmitDeviceForm(form, host, rooms)
      PROVE  LoginInv'
  BY <1>6, <1>2, <1>3 DEF SubmitDeviceForm
<1> QED
  BY <1>1, <1>3, <1>4, <1>5, <1>6 DEF Next, vars

\* A discovery whose list request was not refused knows all that is listed.
Listed == {"aiotList", "megaLogin"} \cup Merging \cup {"done"}

HomeInv ==
  /\ account \in Accounts
  /\ step \in {"megaList", "megaCredentials"} => token
  /\ step \in {"cloudList", "homeList", "aiotList", "megaLogin"} => ~token
  /\ step \in Listed /\ ~token /\ "homeList" \notin refused => listed = account.home

LEMMA HomeStep == HomeInv /\ [Next]_vars => HomeInv'
<1> SUFFICES ASSUME HomeInv, [Next]_vars PROVE HomeInv'
  OBVIOUS
<1> USE DEF HomeInv, Listed, Merging
<1>1. CASE Discovers
  <2>1. ASSUME NEW answered \in BOOLEAN,
               AttemptLogin(answered) \/ GetUserInfo(answered) \/ GetCredentials(answered)
        PROVE  HomeInv'
    BY <2>1 DEF AttemptLogin, GetUserInfo, GetCredentials, TryNext, FirstList, Response
  <2>2. ASSUME NEW answered \in BOOLEAN, GetCloudList(answered) \/ GetHomeList(answered)
        PROVE  HomeInv'
    <3>1. account.cloud \in {{}, account.home}
      BY AccountTypeOK
    <3>2. CASE GetCloudList(answered)
      BY <3>1, <3>2 DEF GetCloudList, Response
    <3>3. CASE GetHomeList(answered)
      BY <3>3 DEF GetHomeList, Response
    <3> QED
      BY <2>2, <3>2, <3>3
  <2>3. ASSUME NEW answered \in BOOLEAN, GetAiotList(answered) \/ MegaLogin(answered)
        PROVE  HomeInv'
    <3>1. /\ UNCHANGED <<account, listed>> /\ refused \subseteq refused'
          /\ step \in {"aiotList", "megaLogin"} /\ step' \in {"megaLogin", "megaList", "tuyaEU"}
          /\ step' = "megaList" => token'
          /\ step' = "megaLogin" => ~token'
      BY <2>3 DEF GetAiotList, MegaLogin, Response
    <3> QED
      BY <3>1
  <2>4. ASSUME NEW answered \in BOOLEAN, GetMegaList(answered) \/ GetMegaCredentials(answered)
        PROVE  HomeInv'
    BY <2>4 DEF GetMegaList, GetMegaCredentials, Response
  <2>5. ASSUME NEW answered \in BOOLEAN, TuyaLogin(answered) \/ GetTuyaList(answered)
        PROVE  HomeInv'
    BY <2>5 DEF TuyaLogin, GetTuyaList, Response
  <2>6. CASE RequestFails
    BY <2>6 DEF RequestFails
  <2> QED
    BY <1>1, <2>1, <2>2, <2>3, <2>4, <2>5, <2>6 DEF Discovers, Discover
<1>2. ASSUME Reload PROVE HomeInv'
  BY <1>2 DEF Reload
<1>3. CASE UNCHANGED accountVars
  BY <1>3 DEF accountVars, discovery
<1>4. CASE ChangeRest
  BY <1>4, <1>2 DEF ChangeRest
<1>5. CASE OpenDeviceForm
  BY <1>5, <1>3 DEF OpenDeviceForm
<1>6. ASSUME NEW form \in forms, NEW host \in Hosts \cup {None}, NEW rooms \in BOOLEAN,
             SubmitDeviceForm(form, host, rooms)
      PROVE  HomeInv'
  BY <1>6, <1>2, <1>3 DEF SubmitDeviceForm
<1> QED
  BY <1>1, <1>3, <1>4, <1>5, <1>6 DEF Next, vars

\* A robot that a complete list shows has a device in the end, whatever its
\* account and whatever else failed (EufyLogin.init, getDevices,
\* getCloudDevices).
THEOREM NoRobotIsLost == Spec => []NoneIsLost
<1>1. Init => LoginInv /\ HomeInv
  BY DEF Init, AccountInit, Start, LoginInv, HomeInv, Listed, Merging
<1>2. ListInv /\ DoneInv /\ LoginInv /\ HomeInv => NoneIsLost
  <2>1. SUFFICES ASSUME ListInv, DoneInv, LoginInv, HomeInv, step = "done" PROVE NoneIsLost
    BY DEF NoneIsLost
  <2>2. \A r : HasConfirmed(r) => HasDevice(r)
    BY DEF HasConfirmed, HasDevice, DevicesOf
  <2>3. \A r \in account.known : r \in account.aiot /\ userInfo /\ ~token
          /\ "aiotList" \notin refused => HasDevice(r)
    BY <2>1, <2>2 DEF ListInv, FoundInv
  <2>4. \A r \in account.known : r \in account.mega /\ refused = {} => HasDevice(r)
    BY <2>1, <2>2 DEF ListInv, FoundInv
  <2>5. refused = {} => (userInfo <=> account.userCenter # {})
    BY <2>1 DEF LoginInv
  <2>6. ~token /\ "homeList" \notin refused => listed = account.home
    BY <2>1 DEF HomeInv, Listed
  <2>7. \A r \in account.known :
          /\ r \in account.home /\ account.aiot = {} /\ account.tuya \subseteq account.home
          /\ r \in listed \/ (~token /\ "homeList" \notin refused)
          => HasDevice(r)
    BY <2>1, <2>6 DEF DoneInv
  <2> QED
    BY <2>1, <2>3, <2>4, <2>5, <2>7 DEF DoneInv, NoneIsLost
<1> QED
  BY <1>1, <1>2, LoginInvStep, HomeStep, ListInvariant, PTL DEF Spec

-----------------------------------------------------------------------------
(***************************************************************************)
(* The options.                                                            *)
(***************************************************************************)
\* What a submitted form stores is of its device.
LEMMA StoreKeepsOthers ==
  ASSUME NEW map, NEW id, NEW entry, NEW other, other # id
  PROVE  Override(Store(map, id, entry), other) = Override(map, other)
<1>1. CASE entry = NoOverride
  BY <1>1 DEF Store, Override, Restrict
<1>2. CASE entry # NoOverride
  BY <1>2 DEF Store, Override
<1> QED
  BY <1>1, <1>2

\* No form and no other flow changes the overrides of a device that is not its
\* own (async_step_device, async_step_settings).
THEOREM OverridesOfOthersStay == Spec => OthersKept
<1> DEFINE Kept == \A id \in DOMAIN local \cup DOMAIN local' :
              Override(local, id) # Override(local', id) =>
                \E form \in forms \ forms' : form.id = id
<1>1. ASSUME [Next]_vars PROVE [Kept]_vars
  <2>1. ASSUME UNCHANGED local PROVE Kept
    BY <2>1
  <2>2. ASSUME NEW form \in forms, NEW host \in Hosts \cup {None}, NEW rooms \in BOOLEAN,
               SubmitDeviceForm(form, host, rooms), local' # local
        PROVE  Kept
    <3>1. form \in forms \ forms' /\ local' = Submitted(form, host, rooms)
      BY <2>2 DEF SubmitDeviceForm
    <3>2. ASSUME NEW id, id # form.id PROVE Override(local', id) = Override(local, id)
      BY <3>1, <3>2, StoreKeepsOthers DEF Submitted
    <3> QED
      BY <3>1, <3>2
  <2>3. UNCHANGED local \/ \E form \in forms, host \in Hosts \cup {None}, rooms \in BOOLEAN :
                              SubmitDeviceForm(form, host, rooms)
    BY <1>1 DEF Next, Discovers, ChangeRest, OpenDeviceForm, optionVars, vars
  <2> QED
    BY <2>1, <2>2, <2>3
<1> QED
  BY <1>1, PTL DEF Spec, OthersKept

-----------------------------------------------------------------------------
(***************************************************************************)
(* The addresses.  One is stored for a device of Tuya's with a key only;   *)
(* after a complete discovery, that device has its key again, or it is of  *)
(* another list.                                                           *)
(***************************************************************************)
HasKey(id) == \E r \in account.keyed : id = TuyaId(r)

KeyInv ==
  step = "done" => \A d \in devices :
    /\ d.keyed => HasKey(d.id)
    /\ refused = {} /\ HasKey(d.id) => d.keyed \/ d.via \in {"aiot", "mega"}

FormOK(form) ==
  /\ form.hasHost => form.host = Override(form.map, form.id).host
  /\ ~form.hasHost => form.host = None
  /\ refusals = {} /\ HasKey(form.id) => form.hasHost \/ form.via \in {"aiot", "mega"}

HostInv ==
  /\ refusals = {} => refused = {}
  /\ \A id \in DOMAIN local : local[id].host # None => HasKey(id)
  /\ \A form \in forms : FormOK(form)

LEMMA OneListHasNoKey ==
  ASSUME OneList, NEW d \in devices
  PROVE  ~d.keyed
<1>1. PICK via \in {"aiot", "mega", "placeholder"}, r \in Robots \cup {d.robot} :
        d = Device(r, EufyId(r), via)
  BY DEF OneList, EufyDevices, Device
<1>2. d.keyed = (via = "tuya" /\ r \in account.keyed)
  BY <1>1 DEF Device
<1> QED
  BY <1>2

\* The merge leaves no placeholder of a robot Tuya has a key of.
LEMMA MergedKeys ==
  ASSUME ListInv, OneList, NEW d \in Merged
  PROVE  /\ d.keyed => HasKey(d.id)
         /\ HasKey(d.id) => d.keyed \/ d.via \in {"aiot", "mega"}
<1>1. account.keyed \subseteq account.tuya /\ account.tuya \subseteq Robots
  BY AccountTypeOK DEF ListInv
<1>2. CASE d \in Cloud
  <2>1. d.robot \in Robots /\ d.id = TuyaId(d.robot) /\ (d.keyed <=> d.robot \in account.keyed)
    BY <1>2, CloudShape
  <2>2. HasKey(d.id) => d.robot \in account.keyed
    BY <1>1, <2>1, IdsAreDistinct DEF HasKey
  <2> QED
    BY <2>1, <2>2 DEF HasKey
<1>3. CASE d \in StillDevices(Cloud)
  <2>1. d \in devices /\ ~d.keyed /\ d.via \in {"aiot", "mega", "placeholder"}
    BY <1>3, StillShape, ListShape, OneListHasNoKey
  <2>2. d.via = "placeholder" => ~HasKey(d.id)
    BY <1>1, <1>3, <2>1, StillShape DEF HasKey, Placeholders
  <2> QED
    BY <2>1, <2>2
<1> QED
  BY <1>2, <1>3 DEF Merged

LEMMA KeyStep == ListInv /\ KeyInv /\ [Next]_vars => KeyInv'
<1> SUFFICES ASSUME ListInv, KeyInv, [Next]_vars, step' = "done" PROVE KeyInv'
  BY DEF KeyInv
<1>1. CASE Discovers
  <2>1. UNCHANGED account
    BY <1>1 DEF Discovers, Discover, Response, AttemptLogin, GetUserInfo, GetCredentials,
              GetCloudList, GetHomeList, GetAiotList, MegaLogin, GetMegaList,
              GetMegaCredentials, TuyaLogin,
              GetTuyaList, RequestFails
  <2>2. \A id : HasKey(id)' <=> HasKey(id)
    BY <2>1 DEF HasKey, TuyaId, EufyId
  <2>3. CASE UNCHANGED devices /\ refused' # {} /\ step \in Merging
    <3>1. OneList
      BY <2>3 DEF ListInv
    <3>2. \A d \in devices' : ~d.keyed
      BY <2>3, <3>1, OneListHasNoKey
    <3> QED
      BY <2>3, <3>2 DEF KeyInv
  <2>4. ASSUME GetTuyaList(TRUE) PROVE KeyInv'
    <3>1. devices' = Merged /\ step = "tuyaList"
      BY <2>4 DEF GetTuyaList, Response, Merged, Cloud
    <3>2. OneList
      BY <3>1 DEF ListInv, Merging
    <3> QED
      BY <3>1, <3>2, <2>2, MergedKeys DEF KeyInv
  <2>5. ASSUME NEW answered \in BOOLEAN, TuyaLogin(answered) \/ (GetTuyaList(answered) /\ ~answered)
        PROVE  UNCHANGED devices /\ refused' # {} /\ step \in Merging
    BY <2>5 DEF TuyaLogin, GetTuyaList, Response, Merging
  <2>6. RequestFails => UNCHANGED devices /\ refused' # {} /\ step \in Merging
    BY DEF RequestFails, Merging
  <2>7. \E answered \in BOOLEAN : TuyaLogin(answered) \/ GetTuyaList(answered) \/ RequestFails
    BY <1>1, StepsBeforeTuya DEF Discovers, Discover, AttemptLogin, GetUserInfo, TryNext,
       FirstList, GetCredentials, GetCloudList, GetHomeList, MegaLogin, GetAiotList, GetMegaList,
       GetMegaCredentials
  <2> QED
    BY <2>3, <2>4, <2>5, <2>6, <2>7
<1>2. CASE Reload
  BY <1>2 DEF Reload
<1>3. CASE UNCHANGED accountVars
  <2>1. UNCHANGED <<account, step, devices, refused>>
    BY <1>3 DEF accountVars, discovery
  <2>2. \A id : HasKey(id)' <=> HasKey(id)
    BY <2>1 DEF HasKey, TuyaId, EufyId
  <2> QED
    BY <2>1, <2>2 DEF KeyInv
<1> QED
  BY <1>1, <1>2, <1>3 DEF Next, ChangeRest, OpenDeviceForm, SubmitDeviceForm, vars

LEMMA StoreShape ==
  ASSUME NEW map, NEW id, NEW entry
  PROVE  /\ Override(Store(map, id, entry), id) = entry
         /\ \A i \in DOMAIN Store(map, id, entry) :
              \/ i = id /\ Store(map, id, entry)[i] = entry
              \/ i \in DOMAIN map /\ Store(map, id, entry)[i] = map[i]
<1>1. CASE entry = NoOverride
  BY <1>1 DEF Store, Override, Restrict
<1>2. CASE entry # NoOverride
  BY <1>2 DEF Store, Override
<1> QED
  BY <1>1, <1>2

\* The device a form is opened or submitted for is one of those there are.
LEMMA DeviceOfItsId ==
  ASSUME NEW id \in Ids(devices)
  PROVE  DeviceOf(id) \in devices /\ DeviceOf(id).id = id
BY DEF Ids, DeviceOf

LEMMA SameAccountKeepsHosts ==
  ASSUME HostInv, UNCHANGED <<account, local, forms>>, refusals' = {} => refusals = {},
         refusals' = {} => refused' = {}
  PROVE  HostInv'
<1>1. \A id : HasKey(id)' <=> HasKey(id)
  BY DEF HasKey, TuyaId, EufyId
<1>2. \A form : FormOK(form) => FormOK(form)'
  BY <1>1 DEF FormOK, Override, NoOverride
<1> QED
  BY <1>1, <1>2 DEF HostInv

\* Only for a device that has its key now, an address is stored.
LEMMA SubmitKeepsHosts ==
  ASSUME HostInv, KeyInv, NEW form \in forms, NEW host \in Hosts \cup {None},
         NEW rooms \in BOOLEAN, SubmitDeviceForm(form, host, rooms)
  PROVE  HostInv'
<1>1. /\ UNCHANGED <<account, refusals>> /\ forms' \subseteq forms
      /\ refused' \in {refused, {}}
  BY DEF SubmitDeviceForm, Reload, accountVars, discovery
<1>2. \A id : HasKey(id)' <=> HasKey(id)
  BY <1>1 DEF HasKey, TuyaId, EufyId
<1>3. \A f : FormOK(f) => FormOK(f)'
  BY <1>1, <1>2 DEF FormOK, Override, NoOverride
<1>4. ASSUME NEW id \in DOMAIN local', local'[id].host # None PROVE HasKey(id)
  <2>1. CASE UNCHANGED local
    BY <1>4, <2>1 DEF HostInv
  <2>2. CASE Loaded /\ form.id \in Ids(devices) /\ local' = Submitted(form, host, rooms)
    <3> DEFINE entry == [host |-> IF DeviceOf(form.id).keyed THEN host ELSE None, rooms |-> rooms]
    <3>1. local' = Store(local, form.id, entry)
      BY <2>2 DEF Submitted
    <3>2. entry.host # None => DeviceOf(form.id).keyed
      OBVIOUS
    <3>3. entry.host # None => HasKey(form.id)
      BY <2>2, <3>2, DeviceOfItsId DEF KeyInv, Loaded
    <3> HIDE DEF entry
    <3>4. \/ id = form.id /\ local'[id] = entry
          \/ id \in DOMAIN local /\ local'[id] = local[id]
      BY <1>4, <3>1, StoreShape
    <3> QED
      BY <1>4, <3>3, <3>4 DEF HostInv
  <2> QED
    BY <2>1, <2>2 DEF SubmitDeviceForm
<1> QED
  BY <1>1, <1>2, <1>3, <1>4 DEF HostInv

LEMMA OpenKeepsHosts ==
  ASSUME HostInv, KeyInv, OpenDeviceForm
  PROVE  HostInv'
<1>1. UNCHANGED <<account, local, refusals, refused>>
  BY DEF OpenDeviceForm, accountVars, discovery
<1>2. \A id : HasKey(id)' <=> HasKey(id)
  BY <1>1 DEF HasKey, TuyaId, EufyId
<1>3. \A form : FormOK(form) => FormOK(form)'
  BY <1>1, <1>2 DEF FormOK, Override, NoOverride
<1>4. PICK id \in Ids(devices) : forms' = forms \cup {DeviceForm(id)}
  BY DEF OpenDeviceForm
<1>5. FormOK(DeviceForm(id))
  <2>1. DeviceOf(id) \in devices /\ DeviceOf(id).id = id
    BY DeviceOfItsId
  <2>2. refusals = {} /\ HasKey(id) => DeviceOf(id).keyed \/ DeviceOf(id).via \in {"aiot", "mega"}
    BY <2>1 DEF KeyInv, HostInv, OpenDeviceForm, Loaded
  <2>3. /\ DeviceForm(id).id = id /\ DeviceForm(id).hasHost = DeviceOf(id).keyed
        /\ DeviceForm(id).host = IF DeviceOf(id).keyed THEN Override(local, id).host ELSE None
        /\ DeviceForm(id).map = local /\ DeviceForm(id).via = DeviceOf(id).via
    BY DEF DeviceForm
  <2> QED
    BY <2>2, <2>3 DEF FormOK
<1> QED
  BY <1>1, <1>2, <1>3, <1>4, <1>5 DEF HostInv

LEMMA HostStep == HostInv /\ KeyInv /\ [Next]_vars => HostInv'
<1> SUFFICES ASSUME HostInv, KeyInv, [Next]_vars PROVE HostInv'
  OBVIOUS
<1>1. CASE Discovers
  <2>1. UNCHANGED <<account, local, forms>>
    BY <1>1 DEF Discovers, optionVars, Discover, Response, AttemptLogin, GetUserInfo,
              GetCredentials, GetCloudList, GetHomeList, GetAiotList, MegaLogin, GetMegaList,
              GetMegaCredentials, TuyaLogin, GetTuyaList, RequestFails
  <2>2. refusals' = refusals \cup refused'
    BY <1>1 DEF Discovers
  <2> QED
    BY <2>1, <2>2, SameAccountKeepsHosts
<1>2. CASE ChangeRest
  BY <1>2, SameAccountKeepsHosts DEF ChangeRest, Reload, optionVars
<1>3. CASE UNCHANGED vars
  BY <1>3, SameAccountKeepsHosts DEF vars, accountVars, discovery, optionVars, HostInv
<1> QED
  BY <1>1, <1>2, <1>3, OpenKeepsHosts, SubmitKeepsHosts DEF Next

LEMMA HostInvariant == Spec => [](ListInv /\ KeyInv /\ HostInv)
<1>1. Init => KeyInv /\ HostInv
  BY DEF Init, AccountInit, Start, KeyInv, HostInv
<1> QED
  BY <1>1, KeyStep, HostStep, ListInvariant, PTL DEF Spec

\* A step that takes the address of a device: it was cleared, or a case the
\* property names.
LEMMA HostLost ==
  ASSUME HostInv, KeyInv, NEW form \in forms, NEW host \in Hosts \cup {None},
         NEW rooms \in BOOLEAN, SubmitDeviceForm(form, host, rooms),
         form.id \in DOMAIN local, refusals = {}, local[form.id].host # None,
         Override(local', form.id).host = None
  PROVE  \/ form.id \in cleared'
         \/ DeviceOf(form.id).via \in {"aiot", "mega"}
         \/ Override(form.map, form.id) # local[form.id]
         \/ form.via \in {"aiot", "mega"}
<1>1. local' # local
  BY DEF Override
<1>2. /\ Loaded /\ form.id \in Ids(devices) /\ local' = Submitted(form, host, rooms)
      /\ cleared' = IF host # None THEN cleared \ {form.id}
                    ELSE IF form.host # None THEN cleared \cup {form.id} ELSE cleared
  BY <1>1 DEF SubmitDeviceForm
<1>3. DeviceOf(form.id).keyed => host = None
  <2> DEFINE entry == [host |-> IF DeviceOf(form.id).keyed THEN host ELSE None, rooms |-> rooms]
  <2>1. Override(local', form.id) = entry
    BY <1>2, StoreShape DEF Submitted
  <2> QED
    BY <2>1
<1>4. HasKey(form.id)
  BY DEF HostInv
<1>5. DeviceOf(form.id).keyed \/ DeviceOf(form.id).via \in {"aiot", "mega"}
  BY <1>2, <1>4, DeviceOfItsId DEF KeyInv, HostInv, Loaded
<1>6. form.hasHost /\ form.host = None => Override(form.map, form.id) # local[form.id]
  BY DEF HostInv, FormOK
<1>7. form.hasHost \/ form.via \in {"aiot", "mega"}
  BY <1>4 DEF HostInv, FormOK
<1> QED
  BY <1>2, <1>3, <1>5, <1>6, <1>7

\* With complete discoveries an address goes only when the user clears it, when
\* its device was edited meanwhile, or when the device is or was none of Tuya's
\* (async_step_device).
THEOREM AddressesSurvive == Spec => HostsSurvive
<1> DEFINE Survive ==
             \A id \in DOMAIN local :
               /\ refusals = {}
               /\ local[id].host # None
               /\ Override(local', id).host = None
               => \/ id \in cleared'
                  \/ DeviceOf(id).via \in {"aiot", "mega"}
                  \/ \E form \in forms \ forms' :
                       Override(form.map, id) # local[id] \/ form.via \in {"aiot", "mega"}
<1>1. ASSUME HostInv, KeyInv, [Next]_vars PROVE [Survive]_vars
  <2>1. ASSUME UNCHANGED local PROVE Survive
    BY <2>1 DEF Override
  <2>2. ASSUME NEW form \in forms, NEW host \in Hosts \cup {None}, NEW rooms \in BOOLEAN,
               SubmitDeviceForm(form, host, rooms), local' # local
        PROVE  Survive
    <3>1. form \in forms \ forms' /\ local' = Submitted(form, host, rooms)
      BY <2>2 DEF SubmitDeviceForm
    <3>2. ASSUME NEW id \in DOMAIN local, id # form.id
          PROVE  Override(local', id) = local[id]
      BY <3>1, <3>2, StoreKeepsOthers DEF Submitted, Override
    <3> QED
      BY <1>1, <2>2, <3>1, <3>2, HostLost
  <2>3. UNCHANGED local \/ \E form \in forms, host \in Hosts \cup {None}, rooms \in BOOLEAN :
                              SubmitDeviceForm(form, host, rooms)
    BY <1>1 DEF Next, Discovers, ChangeRest, OpenDeviceForm, optionVars, vars
  <2> QED
    BY <2>1, <2>2, <2>3
<1> QED
  BY <1>1, HostInvariant, PTL DEF Spec, HostsSurvive

-----------------------------------------------------------------------------
(***************************************************************************)
(* Types.                                                                  *)
(***************************************************************************)
LEMMA DiscoveryTyped ==
  ASSUME TypeOK, NEW answered \in BOOLEAN,
         \/ GetCredentials(answered) \/ GetCloudList(answered)
         \/ GetHomeList(answered) \/ GetAiotList(answered)
         \/ MegaLogin(answered) \/ GetMegaList(answered)
         \/ GetMegaCredentials(answered) \/ TuyaLogin(answered) \/ GetTuyaList(answered),
         UNCHANGED <<local, pasted>>
  PROVE  TypeOK'
<1>1. /\ UNCHANGED <<account, tried, session, fallback, userInfo>>
      /\ step' \in {"homeList", "aiotList", "megaLogin", "megaList", "megaCredentials",
                    "cloudList", "tuyaEU", "tuyaUS", "tuyaList", "done"}
      /\ token' \in BOOLEAN /\ credentials' \in {None, "legacy", "mega"}
  BY DEF TypeOK, Response, FirstList, loginVars, GetCredentials, GetCloudList, GetHomeList,
         GetAiotList,
         MegaLogin, GetMegaList, GetMegaCredentials, TuyaLogin, GetTuyaList
<1>2. listed' \in SUBSET Robots
  BY AccountTypeOK DEF TypeOK, GetCredentials, GetCloudList, GetHomeList, GetAiotList,
         MegaLogin, GetMegaList, GetMegaCredentials, TuyaLogin, GetTuyaList
<1>3. ASSUME NEW d \in devices', d.via = "tuya" PROVE d.id = TuyaId(d.robot)
  <2>1. CASE GetAiotList(answered) \/ GetMegaList(answered)
    BY <1>3, <2>1 DEF GetAiotList, GetMegaList, EufyDevices, Device
  <2>2. CASE GetTuyaList(answered)
    BY <1>3, <2>2 DEF GetTuyaList, StillDevices, Device, TypeOK
  <2>3. CASE UNCHANGED devices
    BY <1>3, <2>3 DEF TypeOK
  <2> QED
    BY <2>1, <2>2, <2>3
       DEF GetCredentials, GetCloudList, GetHomeList, MegaLogin, GetMegaCredentials, TuyaLogin
<1>4. \A d \in devices' : d.via = "tuya" => d.id = TuyaId(d.robot)'
  BY <1>1, <1>3 DEF TuyaId, EufyId
<1> QED
  BY <1>1, <1>2, <1>4 DEF TypeOK

LEMMA LoginTyped ==
  ASSUME TypeOK, LoginInv, NEW answered \in BOOLEAN,
         AttemptLogin(answered) \/ GetUserInfo(answered), UNCHANGED <<local, pasted>>
  PROVE  TypeOK'
<1>1. LoginInv'
  BY LoginStep
<1>2. UNCHANGED <<account, token, credentials, listed, devices>>
  BY DEF AttemptLogin, GetUserInfo, Response
<1>3. /\ step' \in {"login", "user", "credentials", "cloudList", "megaList", "failed"}
      /\ userInfo' \in BOOLEAN
  BY DEF TypeOK, AttemptLogin, GetUserInfo, TryNext, FirstList
<1>4. Len(Logins) = 2
  BY DEF Logins
<1>5. \A d \in devices' : d.via = "tuya" => d.id = TuyaId(d.robot)'
  BY <1>2 DEF TypeOK, TuyaId, EufyId
<1> QED
  BY <1>1, <1>2, <1>3, <1>4, <1>5 DEF TypeOK, LoginInv

LEMMA ReloadTyped ==
  ASSUME TypeOK, Reload, pasted' \in BOOLEAN, \A id \in DOMAIN local' : local'[id] # NoOverride
  PROVE  TypeOK'
<1>1. NoOverride' = NoOverride /\ Len(Logins) = 2
  BY DEF NoOverride, Logins
<1>2. token' \in BOOLEAN /\ userInfo' \in BOOLEAN
  BY Zenon DEF Reload
<1> QED
  BY <1>1, <1>2 DEF TypeOK, Reload

\* Nothing empty is stored.
LEMMA StoreTyped ==
  ASSUME NEW map, \A i \in DOMAIN map : map[i] # NoOverride, NEW id, NEW entry
  PROVE  \A i \in DOMAIN Store(map, id, entry) : Store(map, id, entry)[i] # NoOverride
BY DEF Store, Restrict

\* Every state of the discovery, of the forms and of the options is well typed.
THEOREM OptionsTypeCorrect == Spec => []TypeOK
<1>1. Init => TypeOK /\ LoginInv
  <2>1. Len(Logins) = 2
    BY DEF Logins
  <2>2. Init => token \in BOOLEAN /\ pasted \in BOOLEAN /\ userInfo = FALSE
    BY Zenon DEF Init, AccountInit, Start
  <2>3. Init => LoginInv
    BY DEF Init, AccountInit, Start, LoginInv
  <2>4. Init => \A id \in DOMAIN local : local[id] # NoOverride
    BY DEF Init
  <2>5. Init => TypeOK
    <3>1. SUFFICES ASSUME Init PROVE TypeOK
      OBVIOUS
    <3>2. account \in Accounts /\ step = "login" /\ tried = 0 /\ session = None /\ fallback = None
          /\ credentials = None /\ listed = {} /\ devices = {}
      BY <3>1 DEF Init, AccountInit, Start
    <3>3. userInfo \in BOOLEAN
      BY <3>1, <2>2
    <3> QED
      BY <3>1, <3>2, <3>3, <2>1, <2>2, <2>4 DEF TypeOK
  <2> QED
    BY <2>3, <2>5
<1>2. ASSUME TypeOK, LoginInv, [Next]_vars PROVE TypeOK'
  <2>1. CASE Discovers
    <3>1. CASE RequestFails
      <4>1. UNCHANGED <<account, tried, session, fallback, userInfo, token, pasted,
                        credentials, listed, devices, local>> /\ step' \in {"done", "failed"}
        BY <2>1, <3>1 DEF Discovers, RequestFails, loginVars, optionVars
      <4>2. \A d \in devices' : d.via = "tuya" => d.id = TuyaId(d.robot)'
        BY <1>2, <4>1 DEF TypeOK, TuyaId, EufyId
      <4> QED
        BY <1>2, <4>1, <4>2 DEF TypeOK
    <3> QED
      BY <1>2, <2>1, <3>1, DiscoveryTyped, LoginTyped DEF Discovers, Discover, optionVars
  <2>2. CASE ChangeRest
    BY <1>2, <2>2, ReloadTyped DEF ChangeRest, optionVars, TypeOK
  <2>3. ASSUME UNCHANGED <<accountVars, pasted, local>> PROVE TypeOK'
    <3>1. UNCHANGED <<account, step, tried, session, fallback, userInfo, token, credentials,
                      listed, devices, pasted, local>>
      BY <2>3 DEF accountVars, discovery, loginVars
    <3>2. \A d \in devices' : d.via = "tuya" => d.id = TuyaId(d.robot)'
      BY <1>2, <3>1 DEF TypeOK, TuyaId, EufyId
    <3> QED
      BY <1>2, <3>1, <3>2 DEF TypeOK
  <2>4. ASSUME NEW form \in forms, NEW host \in Hosts \cup {None}, NEW rooms \in BOOLEAN,
               SubmitDeviceForm(form, host, rooms)
        PROVE  TypeOK'
    <3>1. CASE UNCHANGED <<accountVars, local>>
      BY <2>3, <2>4, <3>1 DEF SubmitDeviceForm
    <3>2. CASE Reload /\ local' = Submitted(form, host, rooms)
      BY <1>2, <2>4, <3>2, ReloadTyped, StoreTyped DEF Submitted, SubmitDeviceForm, TypeOK
    <3> QED
      BY <2>4, <3>1, <3>2 DEF SubmitDeviceForm
  <2> QED
    BY <1>2, <2>1, <2>2, <2>3, <2>4 DEF Next, OpenDeviceForm, optionVars, vars
<1> QED
  BY <1>1, <1>2, LoginInvStep, PTL DEF Spec
=============================================================================
