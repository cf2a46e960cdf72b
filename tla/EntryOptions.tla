---------------------------- MODULE EntryOptions ----------------------------
(***************************************************************************)
(* config_flow.py on a config entry: the options flow, with its form for   *)
(* one device and its form of general settings, and the reconfigure and    *)
(* reauth flows.  Any of them may be open at once; each change reloads the *)
(* entry (__init__.py, update_listener), which discovers its robots anew.  *)
(***************************************************************************)
EXTENDS Account, Functions

CONSTANTS
  Hosts,        \* addresses that _is_valid_host accepts
  MaxForms, MaxReloads   \* bounds of the model

ASSUME NoneIsNoHost == None \notin Hosts

VARIABLES
  local,     \* options.local_devices: [host, rooms] of some devices
  forms,     \* device forms on screen
  pasted,    \* data.mega_token: the user pasted a token of eufy_mega
  reloads,   \* counted
  cleared,   \* history: devices whose address the user cleared
  refusals   \* history: requests refused or failed in any discovery

optionVars == <<local, forms, cleared>>
vars == <<accountVars, optionVars, pasted, reloads, refusals>>

Loaded == step = "done" /\ devices # {}

DeviceOf(id) == CHOOSE d \in devices : d.id = id

NoOverride == [host |-> None, rooms |-> FALSE]
Override(map, id) == IF id \in DOMAIN map THEN map[id] ELSE NoOverride

\* The entry for a device, or none when it would be empty.
Store(map, id, entry) ==
  IF entry = NoOverride THEN Restrict(map, DOMAIN map \ {id})
  ELSE [i \in DOMAIN map \cup {id} |-> IF i = id THEN entry ELSE map[i]]

Init ==
  /\ AccountInit
  /\ pasted = token
  /\ local = <<>> /\ forms = {} /\ cleared = {}
  /\ reloads = 0 /\ refusals = {}

Discovers ==
  /\ Discover
  /\ refusals' = refusals \cup refused'
  /\ Cardinality(refusals') <= MaxRefusals
  /\ UNCHANGED <<optionVars, pasted, reloads>>

\* The entry is loaded again: after a change of its options or data, when a
\* failed setup is retried, and when Home Assistant restarts.
Reload ==
  /\ reloads < MaxReloads
  /\ reloads' = reloads + 1
  /\ step' = "login" /\ tried' = 0 /\ session' = None /\ fallback' = None
  /\ userInfo' = FALSE /\ token' = pasted' /\ credentials' = None
  /\ listed' = {} /\ devices' = {} /\ refused' = {}
  /\ UNCHANGED <<account, refusals>>

\* async_step_settings, and async_step_reconfigure and async_step_reauth_confirm
\* once their own login found devices: the token may change, the overrides are
\* kept.  A restart, or a set-up tried again, changes nothing at all.
ChangeRest ==
  /\ step \in {"done", "failed"}
  /\ pasted' \in BOOLEAN
  /\ Reload
  /\ UNCHANGED optionVars

-----------------------------------------------------------------------------
(***************************************************************************)
(* The forms.                                                              *)
(***************************************************************************)
\* Fault: the address is not filled in with the stored one.
DeviceFormBlank(id) ==
  [id |-> id, hasHost |-> DeviceOf(id).keyed, host |-> None,
   rooms |-> Override(local, id).rooms, map |-> local, via |-> DeviceOf(id).via]

\* The field for an address is there when the device has a local key.  "map" and
\* "via" are history: the stored overrides at that time, and the list the device
\* came from.
DeviceForm(id) ==
  [id |-> id, hasHost |-> DeviceOf(id).keyed,
   host |-> IF DeviceOf(id).keyed THEN Override(local, id).host ELSE None,
   rooms |-> Override(local, id).rooms, map |-> local, via |-> DeviceOf(id).via]

\* async_step_devices, async_step_device
OpenDeviceForm ==
  /\ Loaded
  /\ Cardinality(forms) < MaxForms
  /\ \E id \in Ids(devices) : forms' = forms \cup {DeviceForm(id)}
  /\ UNCHANGED <<accountVars, local, cleared, pasted, reloads, refusals>>

\* Fault: the overrides are those there were when the form was opened.
SubmittedOld(form, host, rooms) ==
  Store(form.map, form.id,
        [host |-> IF DeviceOf(form.id).keyed THEN host ELSE None, rooms |-> rooms])

\* async_step_device, submitted: the address counts only for a device that has
\* a local key now.
Submitted(form, host, rooms) ==
  Store(local, form.id,
        [host |-> IF DeviceOf(form.id).keyed THEN host ELSE None, rooms |-> rooms])

\* A form without a field for the address sends none; with one, what was shown,
\* another address, or none if the user cleared it.
SubmitDeviceForm(form, host, rooms) ==
  /\ form \in forms
  /\ host \in IF form.hasHost THEN Hosts \cup {None} ELSE {None}
  /\ forms' = forms \ {form}
  /\ UNCHANGED pasted
  /\ IF Loaded /\ form.id \in Ids(devices)
     THEN /\ local' = Submitted(form, host, rooms)
          /\ cleared' = IF host # None THEN cleared \ {form.id}
                        ELSE IF form.host # None THEN cleared \cup {form.id}
                        ELSE cleared
          /\ IF local' # local THEN Reload
             ELSE UNCHANGED <<accountVars, reloads, refusals>>
     ELSE UNCHANGED <<accountVars, local, cleared, reloads, refusals>>   \* no_devices

Next ==
  \/ Discovers
  \/ ChangeRest
  \/ OpenDeviceForm
  \/ \E form \in forms, host \in Hosts \cup {None}, rooms \in BOOLEAN :
       SubmitDeviceForm(form, host, rooms)

Spec == Init /\ [][Next]_vars

-----------------------------------------------------------------------------
(***************************************************************************)
(* What should hold.                                                       *)
(***************************************************************************)
TypeOK ==
  /\ account \in Accounts
  /\ step \in {"login", "user", "credentials", "cloudList", "homeList", "aiotList",
               "megaLogin", "megaList", "megaCredentials", "tuyaEU", "tuyaUS", "tuyaList",
               "done", "failed"}
  /\ tried \in 0..Len(Logins)
  /\ {session, fallback} \subseteq {None, "v1", "v2"}
  /\ userInfo \in BOOLEAN /\ token \in BOOLEAN /\ pasted \in BOOLEAN
  /\ credentials \in {None, "legacy", "mega"}
  /\ listed \in SUBSET Robots
  /\ \A d \in devices : d.via = "tuya" => d.id = TuyaId(d.robot)
  /\ \A id \in DOMAIN local : local[id] # NoOverride

-----------------------------------------------------------------------------
(***************************************************************************)
(* The discovery.                                                          *)
(***************************************************************************)
AccountRobots == account.aiot \cup account.home \cup account.mega \cup account.tuya
DevicesOf(r) == {d \in devices : d.robot = r}
HasDevice(r) == DevicesOf(r) # {}

\* A robot becomes one device: never two of the same id, and not a placeholder
\* beside a Tuya device when it is the only robot and Tuya has its key, though
\* its ids differ (getCloudDevices).
OnePerRobot ==
  step = "done" => \A r \in Robots : Cardinality(DevicesOf(r)) > 1 =>
    /\ r \notin account.sameId
    /\ AccountRobots = {r} =>
         r \notin account.keyed \/ \E d \in DevicesOf(r) : d.via \in {"aiot", "mega"}

\* A robot of known model on a list that came has a device: whatever other
\* lists or logins were refused, found a part or found nothing.  The placeholder
\* of one robot may go for the Tuya device of another, if Tuya has a robot the
\* Eufy cloud does not.
NoneIsLost ==
  step = "done" =>
    /\ refused = {} /\ ~token => (userInfo <=> account.userCenter # {})
    /\ \A r \in account.known :
         /\ r \in account.tuya /\ refused = {} => HasDevice(r)
         /\ r \in account.aiot /\ userInfo /\ ~token /\ "aiotList" \notin refused => HasDevice(r)
         /\ r \in account.mega /\ refused = {} => HasDevice(r)
         /\ r \in account.home /\ account.aiot = {} /\ account.tuya \subseteq account.home
              /\ (r \in listed \/ (~token /\ "homeList" \notin refused)) => HasDevice(r)

\* The MQTT credentials are those of the backend that has the robots: the
\* legacy certificate is not accepted for a migrated robot, and a token got
\* during the discovery brings its own (init).
CredentialsFit ==
  step = "done" => \A d \in devices :
    /\ d.via = "mega" => credentials = "mega" \/ "megaCredentials" \in refused
    /\ d.via \in {"aiot", "placeholder"} => credentials # "mega"

-----------------------------------------------------------------------------
(***************************************************************************)
(* The options.                                                            *)
(***************************************************************************)
\* A device form changes the overrides of its device only, and no change of
\* the other options or of the login changes overrides, however many forms are
\* open and whatever was loaded since ("so other devices' overrides are
\* preserved").
OthersKept ==
  [][\A id \in DOMAIN local \cup DOMAIN local' :
       Override(local, id) # Override(local', id) =>
         \E form \in forms \ forms' : form.id = id]_vars

\* An address the user entered stays until the user clears it, if the device
\* was not edited elsewhere meanwhile and all discoveries were complete: when
\* one was not, a device without its key loses its address with any edit.  So it
\* does when the Eufy cloud or eufy_mega had the device when the form was opened
\* or has it when the form is submitted.
HostsSurvive ==
  [][\A id \in DOMAIN local :
       /\ refusals = {}
       /\ local[id].host # None
       /\ Override(local', id).host = None
       => \/ id \in cleared'
          \/ DeviceOf(id).via \in {"aiot", "mega"}
          \/ \E form \in forms \ forms' :
               Override(form.map, id) # local[id] \/ form.via \in {"aiot", "mega"}]_vars
=============================================================================
