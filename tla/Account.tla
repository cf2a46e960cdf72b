------------------------------- MODULE Account -------------------------------
(***************************************************************************)
(* EufyLogin.init() (api/cloud.py) over EufyHTTPApi (api/http.py): the     *)
(* login to an account and the discovery of its robots in the Eufy cloud,  *)
(* in the unified app's backend (eufy_mega) and in the Tuya cloud.  It is  *)
(* one coroutine; each step below is the request it awaits.                *)
(*                                                                         *)
(* A request is answered, refused (a status or a code the client takes for *)
(* an empty answer) or fails.  A failure ends the whole discovery until    *)
(* the Tuya part, where it ends that part only.                            *)
(***************************************************************************)
EXTENDS Naturals, FiniteSets, Sequences

CONSTANTS
  Robots,
  Accounts,     \* what the servers know, see AccountTypeOK
  None,
  MaxRefusals   \* bound of the model: refusals in one discovery

Logins == <<"v2", "v1">>    \* _LOGIN_CONFIGS, in the order they are tried

ASSUME RobotsAreFinite == IsFiniteSet(Robots)
ASSUME AccountTypeOK == \A a \in Accounts :
  /\ {a.aiot, a.home, a.mega, a.tuya, a.known, a.sameId} \subseteq SUBSET Robots
  /\ a.keyed \subseteq a.tuya                 \* Tuya records with a localKey
  /\ a.userCenter \subseteq {"v1", "v2"}      \* logins with a user_center_id
  /\ a.mega # {} => a.aiot = {} /\ a.home = {}  \* a migrated account
  /\ a.cloud \in {{}, a.home}   \* what the old endpoint of the two still lists
ASSUME NoneIsNoLogin == None \notin {"v1", "v2", "legacy", "mega"}

VARIABLES
  account,      \* one of Accounts, for good
  step,         \* the request awaited; done; failed
  tried,        \* logins attempted
  session,      \* the login whose session is used
  fallback,     \* the first login that gave a session, but no user_center_id
  userInfo,     \* there is user information
  token,        \* there is a token of eufy_mega
  credentials,  \* mqtt_credentials: None, legacy or mega
  listed,       \* eufy_api_devices
  devices,      \* mqtt_devices and cloud_devices
  refused       \* history: the requests refused

loginVars == <<tried, session, fallback, userInfo>>
discovery == <<step, loginVars, token, credentials, listed, devices, refused>>
accountVars == <<account, discovery>>

\* A robot has an id in the Eufy clouds and one in Tuya's, often the same.
EufyId(r) == <<r, "eufy">>
TuyaId(r) == IF r \in account.sameId THEN EufyId(r) ELSE <<r, "tuya">>
Device(r, id, via) == [robot |-> r, id |-> id, via |-> via,
                       keyed |-> via = "tuya" /\ r \in account.keyed]
EufyDevices(robots, via) == {Device(r, EufyId(r), via) : r \in robots}
Placeholders == {d \in devices : d.via = "placeholder"}
Ids(ds) == {d.id : d \in ds}

Start(stored) ==
  /\ step = "login" /\ tried = 0 /\ session = None /\ fallback = None
  /\ userInfo = FALSE /\ token = stored /\ credentials = None
  /\ listed = {} /\ devices = {} /\ refused = {}

AccountInit == account \in Accounts /\ \E stored \in BOOLEAN : Start(stored)

-----------------------------------------------------------------------------
(***************************************************************************)
(* Requests.                                                               *)
(***************************************************************************)
\* The request of step s comes back, with an answer or without.
Response(s, answered) ==
  /\ step = s
  /\ refused' = IF answered THEN refused ELSE refused \cup {s}
  /\ Cardinality(refused') <= MaxRefusals
  /\ UNCHANGED account

FirstList == IF token THEN "megaList" ELSE "cloudList"

\* The login is none to discover with: try the next, or fall back.
TryNext ==
  /\ tried' = tried + 1
  /\ IF tried' < Len(Logins)
     THEN step' = "login" /\ UNCHANGED <<session, userInfo>>
     ELSE IF fallback' # None
     THEN /\ session' = fallback' /\ userInfo' = FALSE
          /\ step' = IF token THEN "credentials" ELSE FirstList
     ELSE step' = "failed" /\ UNCHANGED <<session, userInfo>>

\* _attempt_login
AttemptLogin(answered) ==
  /\ Response("login", answered)
  /\ UNCHANGED <<fallback, token, credentials, listed, devices>>
  /\ IF answered
     THEN /\ session' = Logins[tried + 1] /\ step' = "user"
          /\ UNCHANGED <<tried, userInfo>>
     ELSE TryNext

\* Fault: any login that gives a session will do.
GetUserInfoOrNot(answered) ==
  /\ Response("user", answered)
  /\ userInfo' = (answered /\ session \in account.userCenter)
  /\ step' = "credentials"
  /\ UNCHANGED <<tried, session, fallback, token, credentials, listed, devices>>

\* login: a login without a user_center_id is kept as the fallback.
GetUserInfo(answered) ==
  /\ Response("user", answered)
  /\ UNCHANGED <<token, credentials, listed, devices>>
  /\ IF answered /\ session \in account.userCenter
     THEN /\ userInfo' = TRUE /\ step' = "credentials"
          /\ UNCHANGED <<tried, session, fallback>>
     ELSE /\ fallback' = IF fallback = None THEN session ELSE fallback
          /\ TryNext

\* get_mqtt_credentials: of the backend whose token there is.
GetCredentials(answered) ==
  /\ Response("credentials", answered)
  /\ credentials' = IF ~answered THEN None ELSE IF token THEN "mega" ELSE "legacy"
  /\ step' = FirstList
  /\ UNCHANGED <<loginVars, token, listed, devices>>

\* get_cloud_device_list: the legacy endpoint, and if it has none home-api.
GetCloudList(answered) ==
  /\ Response("cloudList", answered)
  /\ listed' = IF answered THEN account.cloud ELSE {}
  /\ step' = IF listed' = {} THEN "homeList" ELSE "aiotList"
  /\ UNCHANGED <<loginVars, token, credentials, devices>>

GetHomeList(answered) ==
  /\ Response("homeList", answered)
  /\ listed' = IF answered THEN account.home ELSE {}
  /\ step' = "aiotList"
  /\ UNCHANGED <<loginVars, token, credentials, devices>>

\* getDevices: the AIOT list; when that is empty a placeholder for each device
\* listed; when there is none either, the unified app's backend.
GetAiotList(answered) ==
  /\ Response("aiotList", answered)
  /\ LET found == IF answered /\ userInfo THEN account.aiot ELSE {}
     IN  devices' = IF found = {} THEN EufyDevices(listed, "placeholder")
                    ELSE EufyDevices(found \cap (listed \cup account.known), "aiot")
  /\ step' = IF devices' = {} /\ listed = {} THEN "megaLogin" ELSE "tuyaEU"
  /\ UNCHANGED <<loginVars, token, credentials, listed>>

\* ensure_mega_token: never raises; without a token all stays as it is.
MegaLogin(answered) ==
  /\ Response("megaLogin", answered)
  /\ token' = answered
  /\ step' = IF token' THEN "megaList" ELSE "tuyaEU"
  /\ UNCHANGED <<loginVars, credentials, listed, devices>>

\* Fault: the certificate of the first login is good enough.
GetMegaListOnly(answered) ==
  /\ Response("megaList", answered)
  /\ listed' = {}
  /\ devices' = EufyDevices(IF answered THEN account.mega \cap account.known ELSE {},
                            "mega")
  /\ step' = "tuyaEU"
  /\ UNCHANGED <<loginVars, token, credentials>>

\* _get_mega_devices; when it finds devices their credentials are fetched.
GetMegaList(answered) ==
  /\ Response("megaList", answered)
  /\ listed' = {}
  /\ devices' = EufyDevices(IF answered THEN account.mega \cap account.known ELSE {},
                            "mega")
  /\ step' = IF devices' = {} THEN "tuyaEU" ELSE "megaCredentials"
  /\ UNCHANGED <<loginVars, token, credentials>>

\* init: credentials that do not come leave those of login().
GetMegaCredentials(answered) ==
  /\ Response("megaCredentials", answered)
  /\ credentials' = IF answered THEN "mega" ELSE credentials
  /\ step' = "tuyaEU"
  /\ UNCHANGED <<loginVars, token, listed, devices>>

\* tuya_login: the second region when the first refuses.
TuyaLogin(answered) ==
  /\ \/ Response("tuyaEU", answered)
     \/ Response("tuyaUS", answered)
  /\ step' = IF answered THEN "tuyaList" ELSE IF step = "tuyaEU" THEN "tuyaUS" ELSE "done"
  /\ UNCHANGED <<loginVars, token, credentials, listed, devices>>

\* getCloudDevices.  A confirmed device stays with MQTT; a record without a
\* model and without a key is no device.
TuyaFound ==
  LET confirmed == Ids(devices \ Placeholders)
  IN  {r \in account.tuya :
         /\ TuyaId(r) \notin confirmed
         /\ \/ TuyaId(r) \in {EufyId(l) : l \in listed}
            \/ r \in account.known \cup account.keyed}

\* Fault: a Tuya record does not supersede the placeholder of its device.
StillDevicesKept(cloud) == devices

\* The MQTT devices beside those of Tuya: placeholders of the same id are
\* superseded; if there are none, a lone placeholder and a lone device with a
\* key are taken for one robot.
StillDevices(cloud) ==
  LET superseded == {d \in Placeholders : d.id \in {TuyaId(r) : r \in account.tuya}}
      leftover == {d \in Placeholders : d.id \notin Ids(cloud)}
      isLone == Cardinality(leftover) = 1 /\ Cardinality({d \in cloud : d.keyed}) = 1
  IN  IF superseded # {} THEN devices \ superseded
      ELSE IF isLone THEN devices \ leftover ELSE devices

GetTuyaList(answered) ==
  /\ Response("tuyaList", answered)
  /\ LET cloud == {Device(r, TuyaId(r), "tuya") : r \in TuyaFound}
     IN  devices' = IF answered THEN StillDevices(cloud) \cup cloud ELSE devices
  /\ step' = "done"
  /\ UNCHANGED <<loginVars, token, credentials, listed>>

\* A request raises: init() gives up, or its Tuya part does.
RequestFails ==
  /\ step \notin {"done", "failed"}
  /\ step' = IF step \in {"tuyaEU", "tuyaUS", "tuyaList"} THEN "done" ELSE "failed"
  /\ refused' = refused \cup {step}
  /\ UNCHANGED <<account, loginVars, token, credentials, listed, devices>>

Discover ==
  \/ \E answered \in BOOLEAN :
       \/ AttemptLogin(answered) \/ GetUserInfo(answered) \/ GetCredentials(answered)
       \/ GetCloudList(answered) \/ GetHomeList(answered) \/ GetAiotList(answered)
       \/ MegaLogin(answered) \/ GetMegaList(answered) \/ GetMegaCredentials(answered)
       \/ TuyaLogin(answered) \/ GetTuyaList(answered)
  \/ RequestFails

AccountSpec == AccountInit /\ [][Discover]_accountVars
=============================================================================
