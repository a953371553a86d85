-------------------------- MODULE NetworkListProofs --------------------------
(***************************************************************************)
(* Theorems about NetworkList, for any number of network ids, any names    *)
(* and any way in which one name may be found in the line of another.      *)
(*                                                                         *)
(* One invariant carries them all.  Its parts say where an attempt stands: *)
(* what the answer is so far, which network was found, what the list has   *)
(* gained since the operation began.                                       *)
(***************************************************************************)
EXTENDS NetworkList, TLAPS

BeforeAdd == {"search", "add"}
WithNew   == {"set", "select", "wait", "forget", "disable", "drop"}

\* Which operation a point belongs to, and what it will answer.
Control ==
  /\ main \in {"search", "add", "set", "select", "wait"} => ret = "none"
  /\ main \in {"disable", "drop"} => ret = "error"
  /\ main = "forget" => ret = "ok"
  /\ main = "enable_all" => ret \in {"ok", "error"}
  /\ main \in {"pick", "pick_wait"} => op = "with_netid"
  /\ main \in {"find", "remove"} => op = "remove" /\ ssid \in Ssids /\ ret = "none"
  /\ main = "remove_all" => op = "remove_all"
  /\ main = "forget" \/ (main = "enable_all" /\ ret = "ok") => machine_state # "CONNECTING"

\* Only an attempt that goes well gives up a network there was before ...
Kept ==
  /\ ~ astray /\ main \in BeforeAdd \cup WithNew => before \subseteq Saved
  /\ ~ astray /\ main \in {"enable_all", "idle"} /\ op \in Attempts /\ ret = "error" =>
       before \subseteq Saved

\* ... and one that fails removes what it has added.
Clean == ~ astray /\ ~ failed /\ ~ refused
Gained ==
  /\ main \in BeforeAdd /\ Clean => Saved \subseteq before
  /\ main \in WithNew \ {"forget"} /\ Clean => Saved \subseteq before \cup {netid2}
  /\ main \in {"enable_all", "idle"} /\ op \in Attempts /\ ret = "error" /\ Clean =>
       Saved \subseteq before

\* What the search has found stays what it was until it is removed.
Found ==
  ~ astray /\ main \in {"add", "remove"} \cup WithNew /\ netid1 # None =>
    netid1 \in Matching(ssid, key)

\* The network added has the name and the key asked for.
Added == ~ astray /\ main \in {"select", "wait", "forget"} =>
           networks[netid2].ssid = ssid /\ networks[netid2].key_mgmt = KeyType(key)

Once(S) ==
  \A m, n \in S :
    /\ networks[m].ssid = networks[n].ssid /\ networks[m].key_mgmt = networks[n].key_mgmt
    /\ Plain(networks[n].ssid)
    => m = n

Tidy ==
  /\ failed => untidy
  /\ astray => failed
  /\ ~ untidy /\ main \notin WithNew => Once(Saved)
  /\ ~ untidy /\ main \in WithNew => Once(Saved \ {netid2})

\* No other network than the one found has that name and kind of key.
Complete ==
  ~ untidy /\ main \in {"add", "remove"} \cup WithNew /\ Plain(ssid) =>
    \A n \in Saved :
      networks[n].ssid = ssid /\ networks[n].key_mgmt = KeyType(key) =>
        n = netid1 \/ (main \in WithNew /\ n = netid2)

\* The network added is above all others.
Topmost ==
  /\ \/ main \in {"select", "wait", "forget"}
     \/ main \in {"enable_all", "idle"} /\ ret = "ok"
  /\ op \in Attempts /\ ~ failed /\ netid2 \in Saved
  => \A n \in Saved \ {netid2} : networks[n].priority < networks[netid2].priority

IInv ==
  /\ TypeOK /\ Control /\ Kept /\ Gained /\ Found /\ Added
  /\ Tidy /\ Complete /\ Topmost /\ AllEnabled /\ Removed

(***************************************************************************)
(* Lemmas.                                                                 *)
(***************************************************************************)

\* For a plain name a search finds the networks of that name and kind of key.
LEMMA PlainMatching ==
  ASSUME TypeOK, NEW s \in Ssids, NEW k, Plain(s), NEW n \in Saved
  PROVE  n \in Matching(s, k) <=>
           networks[n].ssid = s /\ networks[n].key_mgmt = KeyType(k)
  BY SsidsAssumption DEF Matching, Plain, TypeOK, Network, Saved

USE DEF Saved, Attempts, InAttempt, BeforeAdd, WithNew, Clean, list,
        call, history, Succeeds, Fails, Strays, Return, EnableNetworks, FindsWrong, Chosen

(***************************************************************************)
(* Every action keeps the invariant.                                       *)
(***************************************************************************)

\* A connect begins.
LEMMA ConnectKeeps ==
  ASSUME IInv, NEW s \in Ssids, NEW k \in KeyMgmts, NEW more \in BOOLEAN, Connect(s, k, more)
  PROVE  IInv'
<1>1. Flags'
  BY Zenon DEF IInv, TypeOK, Flags, Connect, Begin
<1>2. TypeOK'
  BY <1>1, KeyMgmtsAssumption, SsidsAssumption, IdsAssumption, SMTT(30) DEF IInv, TypeOK,
     Control, Network, KeyTypes, KeyType, Connect, Begin
<1>3. Control' /\ Kept' /\ Gained'
  BY DEF IInv, Control, Kept, Gained, Connect, Begin
<1>4. Found' /\ Added'
  BY DEF IInv, Found, Added, Connect, Begin
<1>5. Tidy'
  BY DEF IInv, TypeOK, Tidy, Control, Once, Added, Connect, Begin
<1>6. Complete'
  BY DEF IInv, Complete, Connect, Begin
<1>7. Topmost' /\ AllEnabled' /\ Removed'
  BY DEF IInv, Topmost, AllEnabled, Removed, Connect, Begin
<1> QED BY <1>2, <1>3, <1>4, <1>5, <1>6, <1>7 DEF IInv

\* So does an add.
LEMMA AddNetworkKeeps ==
  ASSUME IInv, NEW s \in Ssids, NEW k \in KeyMgmts, AddNetwork(s, k) PROVE IInv'
<1>1. Flags'
  BY Zenon DEF IInv, TypeOK, Flags, AddNetwork, Begin
<1>2. TypeOK'
  BY <1>1, KeyMgmtsAssumption, SsidsAssumption, IdsAssumption, SMTT(30) DEF IInv, TypeOK,
     Control, Network, KeyTypes, KeyType, AddNetwork, Begin
<1>3. Control' /\ Kept' /\ Gained'
  BY DEF IInv, Control, Kept, Gained, AddNetwork, Begin
<1>4. Found' /\ Added'
  BY DEF IInv, Found, Added, AddNetwork, Begin
<1>5. Tidy'
  BY DEF IInv, TypeOK, Tidy, Control, Once, Added, AddNetwork, Begin
<1>6. Complete'
  BY DEF IInv, Complete, AddNetwork, Begin
<1>7. Topmost' /\ AllEnabled' /\ Removed'
  BY DEF IInv, Topmost, AllEnabled, Removed, AddNetwork, Begin
<1> QED BY <1>2, <1>3, <1>4, <1>5, <1>6, <1>7 DEF IInv

\* A refused add passes the end of an attempt.
LEMMA AddRefusedKeeps ==
  ASSUME IInv, AddRefused PROVE IInv'
<1>1. Flags'
  BY Zenon DEF IInv, TypeOK, Flags, AddRefused, Begin
<1>2. TypeOK'
  BY <1>1, KeyMgmtsAssumption, SsidsAssumption, IdsAssumption, SMTT(30) DEF IInv, TypeOK,
     Control, Network, KeyTypes, KeyType, AddRefused, Begin
<1>3. Control' /\ Kept' /\ Gained'
  BY DEF IInv, Control, Kept, Gained, AddRefused, Begin
<1>4. Found' /\ Added'
  BY DEF IInv, Found, Added, AddRefused, Begin
<1>5. Tidy'
  BY DEF IInv, TypeOK, Tidy, Control, Once, Added, AddRefused, Begin
<1>6. Complete'
  BY DEF IInv, Complete, AddRefused, Begin
<1>7. Topmost' /\ AllEnabled' /\ Removed'
  BY DEF IInv, Topmost, AllEnabled, Removed, AddRefused, Begin
<1> QED BY <1>2, <1>3, <1>4, <1>5, <1>6, <1>7 DEF IInv

\* A removal begins.
LEMMA RemoveNetworkKeeps ==
  ASSUME IInv, NEW s \in Ssids, NEW k \in KeyMgmts, RemoveNetwork(s, k) PROVE IInv'
<1>1. Flags'
  BY Zenon DEF IInv, TypeOK, Flags, RemoveNetwork, Begin
<1>2. TypeOK'
  BY <1>1, KeyMgmtsAssumption, SsidsAssumption, IdsAssumption, SMTT(30) DEF IInv, TypeOK,
     Control, Network, KeyTypes, KeyType, RemoveNetwork, Begin
<1>3. Control' /\ Kept' /\ Gained'
  BY DEF IInv, Control, Kept, Gained, RemoveNetwork, Begin
<1>4. Found' /\ Added'
  BY DEF IInv, Found, Added, RemoveNetwork, Begin
<1>5. Tidy'
  BY DEF IInv, TypeOK, Tidy, Control, Once, Added, RemoveNetwork, Begin
<1>6. Complete'
  BY DEF IInv, Complete, RemoveNetwork, Begin
<1>7. Topmost' /\ AllEnabled' /\ Removed'
  BY DEF IInv, Topmost, AllEnabled, Removed, RemoveNetwork, Begin
<1> QED BY <1>2, <1>3, <1>4, <1>5, <1>6, <1>7 DEF IInv

\* A connect by network id begins.
LEMMA WithNetidKeeps ==
  ASSUME IInv, NEW n \in Ids, WithNetid(n) PROVE IInv'
<1>1. Flags'
  BY Zenon DEF IInv, TypeOK, Flags, WithNetid, Begin
<1>2. TypeOK'
  BY <1>1, KeyMgmtsAssumption, SsidsAssumption, IdsAssumption, SMTT(30) DEF IInv, TypeOK,
     Control, Network, KeyTypes, KeyType, WithNetid, Begin
<1>3. Control' /\ Kept' /\ Gained'
  BY DEF IInv, Control, Kept, Gained, WithNetid, Begin
<1>4. Found' /\ Added'
  BY DEF IInv, Found, Added, WithNetid, Begin
<1>5. Tidy'
  BY DEF IInv, TypeOK, Tidy, Control, Once, Added, WithNetid, Begin
<1>6. Complete'
  BY DEF IInv, Complete, WithNetid, Begin
<1>7. Topmost' /\ AllEnabled' /\ Removed'
  BY DEF IInv, Topmost, AllEnabled, Removed, WithNetid, Begin
<1> QED BY <1>2, <1>3, <1>4, <1>5, <1>6, <1>7 DEF IInv

\* A connect to what is saved never reads or writes the list.
LEMMA ConnectAutoKeeps ==
  ASSUME IInv, ConnectAuto PROVE IInv'
<1>1. Flags'
  BY Zenon DEF IInv, TypeOK, Flags, ConnectAuto, Begin
<1>2. TypeOK'
  BY <1>1, KeyMgmtsAssumption, SsidsAssumption, IdsAssumption, SMTT(30) DEF IInv, TypeOK,
     Control, Network, KeyTypes, KeyType, ConnectAuto, Begin
<1>3. Control' /\ Kept' /\ Gained'
  BY DEF IInv, Control, Kept, Gained, ConnectAuto, Begin
<1>4. Found' /\ Added'
  BY DEF IInv, Found, Added, ConnectAuto, Begin
<1>5. Tidy'
  BY DEF IInv, TypeOK, Tidy, Control, Once, Added, ConnectAuto, Begin
<1>6. Complete'
  BY DEF IInv, Complete, ConnectAuto, Begin
<1>7. Topmost' /\ AllEnabled' /\ Removed'
  BY DEF IInv, Topmost, AllEnabled, Removed, ConnectAuto, Begin
<1> QED BY <1>2, <1>3, <1>4, <1>5, <1>6, <1>7 DEF IInv

\* The removal of all begins.
LEMMA RemoveAllNetworksKeeps ==
  ASSUME IInv, RemoveAllNetworks PROVE IInv'
<1>1. Flags'
  BY Zenon DEF IInv, TypeOK, Flags, RemoveAllNetworks, Begin
<1>2. TypeOK'
  BY <1>1, KeyMgmtsAssumption, SsidsAssumption, IdsAssumption, SMTT(30) DEF IInv, TypeOK,
     Control, Network, KeyTypes, KeyType, RemoveAllNetworks, Begin
<1>3. Control' /\ Kept' /\ Gained'
  BY DEF IInv, Control, Kept, Gained, RemoveAllNetworks, Begin
<1>4. Found' /\ Added'
  BY DEF IInv, Found, Added, RemoveAllNetworks, Begin
<1>5. Tidy'
  BY DEF IInv, TypeOK, Tidy, Control, Once, Added, RemoveAllNetworks, Begin
<1>6. Complete'
  BY DEF IInv, Complete, RemoveAllNetworks, Begin
<1>7. Topmost' /\ AllEnabled' /\ Removed'
  BY DEF IInv, Topmost, AllEnabled, Removed, RemoveAllNetworks, Begin
<1> QED BY <1>2, <1>3, <1>4, <1>5, <1>6, <1>7 DEF IInv

\* A call that is refused or only reads changes nothing.
LEMMA AnswerKeeps ==
  ASSUME IInv, NEW result \in {"ok", "error"}, Answer(result) PROVE IInv'
<1>1. Flags'
  BY Zenon DEF IInv, TypeOK, Flags, Answer, Begin
<1>2. TypeOK'
  BY <1>1, KeyMgmtsAssumption, SsidsAssumption, IdsAssumption, SMTT(30) DEF IInv, TypeOK,
     Control, Network, KeyTypes, KeyType, Answer, Begin
<1>3. Control' /\ Kept' /\ Gained'
  BY DEF IInv, Control, Kept, Gained, Answer, Begin
<1>4. Found' /\ Added'
  BY DEF IInv, Found, Added, Answer, Begin
<1>5. Tidy'
  BY DEF IInv, TypeOK, Tidy, Control, Once, Added, Answer, Begin
<1>6. Complete'
  BY DEF IInv, Complete, Answer, Begin
<1>7. Topmost' /\ AllEnabled' /\ Removed'
  BY DEF IInv, Topmost, AllEnabled, Removed, Answer, Begin
<1> QED BY <1>2, <1>3, <1>4, <1>5, <1>6, <1>7 DEF IInv

\* What a search answers, and that it misses nothing.
LEMMA SearchKeeps ==
  ASSUME IInv, Search PROVE IInv'
<1>1. Flags'
  BY Zenon DEF IInv, TypeOK, Flags, Search, FindsOne
<1>2. TypeOK'
  BY <1>1, SsidsAssumption, IdsAssumption, SMTT(30) DEF IInv, TypeOK, Control, Network,
     KeyTypes, Matching, Search, FindsOne
<1>3. Control' /\ Kept' /\ Gained'
  BY DEF IInv, Control, Kept, Gained, Search, FindsOne
<1>4. Found' /\ Added'
  BY DEF IInv, TypeOK, Found, Added, Control, KeyType, Matching, Search, FindsOne
<1>5. Tidy'
  BY DEF IInv, TypeOK, Tidy, Control, Once, Added, Search, FindsOne
<1>6. Complete'
  <2> SUFFICES ASSUME ~ untidy', Plain(ssid'), NEW n \in Saved,
                      networks[n].ssid = ssid, networks[n].key_mgmt = KeyType(key)
               PROVE  n = netid1'
    BY DEF Complete, Search, Saved, list, call
  <2>1. ~ untidy /\ ssid \in Ssids /\ Plain(ssid) /\ Succeeds /\ key' = key /\ ssid' = ssid
    BY DEF IInv, TypeOK, Tidy, Search, FindsOne, Succeeds, Fails, history, call, InAttempt
  <2>2. n \in Matching(ssid, key)
    BY <2>1, PlainMatching DEF IInv
  <2>3. netid1' \in Matching(ssid, key)
    BY <2>1, <2>2 DEF Search, FindsOne, Fails
  <2>4. /\ netid1' \in Saved
        /\ networks[netid1'].ssid = ssid /\ networks[netid1'].key_mgmt = KeyType(key)
    BY <2>1, <2>3, PlainMatching DEF IInv, Matching
  <2>5. Once(Saved)
    BY <2>1 DEF IInv, Tidy, Search, WithNew
  <2> QED BY <2>1, <2>4, <2>5 DEF Once
<1>7. Topmost' /\ AllEnabled' /\ Removed'
  BY DEF IInv, Topmost, AllEnabled, Removed, Search, FindsOne
<1> QED BY <1>2, <1>3, <1>4, <1>5, <1>6, <1>7 DEF IInv

\* The network added is none of those there were.
LEMMA AddKeeps ==
  ASSUME IInv, Add PROVE IInv'
<1>1. Flags'
  BY Zenon DEF IInv, TypeOK, Flags, Add, Fresh
<1>2. TypeOK'
  BY <1>1, SsidsAssumption, IdsAssumption, SMTT(30) DEF IInv, TypeOK, Control, Network,
     KeyTypes, Found, Matching, Kept, Add, Fresh
<1>3. Control' /\ Kept' /\ Gained'
  BY DEF IInv, TypeOK, Control, Kept, Gained, Add, Fresh
<1>4. Found' /\ Added'
  BY DEF IInv, TypeOK, Found, Added, Control, KeyType, Matching, Add, Fresh
<1>5. Tidy'
  BY DEF IInv, TypeOK, Tidy, Control, Once, Added, Add, Fresh
<1>6. Complete'
  BY DEF IInv, TypeOK, Complete, Control, Found, Added, KeyType, Add, Fresh
<1>7. Topmost' /\ AllEnabled' /\ Removed'
  BY DEF IInv, Topmost, AllEnabled, Removed, Add, Fresh
<1> QED BY <1>2, <1>3, <1>4, <1>5, <1>6, <1>7 DEF IInv

\* It gets the name, the key and the highest priority.
LEMMA SetKeeps ==
  ASSUME IInv, Set PROVE IInv'
<1>1. Flags'
  BY Zenon DEF IInv, TypeOK, Flags, Set, Named
<1>2. TypeOK'
  BY <1>1, SsidsAssumption, IdsAssumption, SMTT(30) DEF IInv, TypeOK, Control, Network,
     KeyTypes, Fresh, KeyType, Highest, Set, Named
<1>3. Control' /\ Kept' /\ Gained'
  BY DEF IInv, TypeOK, Control, Kept, Gained, Set, Named
<1>4. Found' /\ Added'
  BY DEF IInv, TypeOK, Found, Added, Control, KeyType, Matching, Set, Named
<1>5. Tidy'
  BY DEF IInv, TypeOK, Tidy, Control, Once, Added, Set, Named
<1>6. Complete'
  BY DEF IInv, TypeOK, Complete, Control, Found, Added, KeyType, Fresh, Set, Named
<1>7. Topmost' /\ AllEnabled' /\ Removed'
  BY DEF IInv, TypeOK, Topmost, AllEnabled, Removed, Control, Tidy, Complete, Found,
     Added, Highest, Network, Fresh, Set, Named
<1> QED BY <1>2, <1>3, <1>4, <1>5, <1>6, <1>7 DEF IInv

\* Selecting it leaves the list alone.
LEMMA SelectKeeps ==
  ASSUME IInv, Select PROVE IInv'
<1>1. Flags'
  BY Zenon DEF IInv, TypeOK, Flags, Select
<1>2. TypeOK'
  BY <1>1, SsidsAssumption, IdsAssumption, SMTT(30) DEF IInv, TypeOK, Control, Network,
     KeyTypes, Select
<1>3. Control' /\ Kept' /\ Gained'
  BY DEF IInv, Control, Kept, Gained, Select
<1>4. Found' /\ Added'
  BY DEF IInv, TypeOK, Found, Added, Control, KeyType, Matching, Select
<1>5. Tidy'
  BY DEF IInv, TypeOK, Tidy, Control, Once, Added, Select
<1>6. Complete'
  BY DEF IInv, Complete, Select
<1>7. Topmost' /\ AllEnabled' /\ Removed'
  BY DEF IInv, Topmost, AllEnabled, Removed, Select
<1> QED BY <1>2, <1>3, <1>4, <1>5, <1>6, <1>7 DEF IInv

\* An association decides for the new network.
LEMMA AssociatedKeeps ==
  ASSUME IInv, Associated PROVE IInv'
<1>1. Flags'
  BY Zenon DEF IInv, TypeOK, Flags, Associated
<1>2. TypeOK'
  BY <1>1, SsidsAssumption, IdsAssumption, SMTT(30) DEF IInv, TypeOK, Control, Network,
     KeyTypes, Associated
<1>3. Control' /\ Kept' /\ Gained'
  BY DEF IInv, Control, Kept, Gained, Associated
<1>4. Found' /\ Added'
  BY DEF IInv, TypeOK, Found, Added, Control, KeyType, Matching, Associated
<1>5. Tidy'
  BY DEF IInv, TypeOK, Tidy, Control, Once, Added, Associated
<1>6. Complete'
  BY DEF IInv, Complete, Associated
<1>7. Topmost' /\ AllEnabled' /\ Removed'
  BY DEF IInv, Topmost, AllEnabled, Removed, Associated
<1> QED BY <1>2, <1>3, <1>4, <1>5, <1>6, <1>7 DEF IInv

\* Without one it is going to be dropped.
LEMMA NotAssociatedKeeps ==
  ASSUME IInv, NotAssociated PROVE IInv'
<1>1. Flags'
  BY Zenon DEF IInv, TypeOK, Flags, NotAssociated
<1>2. TypeOK'
  BY <1>1, SsidsAssumption, IdsAssumption, SMTT(30) DEF IInv, TypeOK, Control, Network,
     KeyTypes, NotAssociated
<1>3. Control' /\ Kept' /\ Gained'
  BY DEF IInv, Control, Kept, Gained, NotAssociated
<1>4. Found' /\ Added'
  BY DEF IInv, TypeOK, Found, Added, Control, KeyType, Matching, NotAssociated
<1>5. Tidy'
  BY DEF IInv, TypeOK, Tidy, Control, Once, Added, NotAssociated
<1>6. Complete'
  BY DEF IInv, Complete, NotAssociated
<1>7. Topmost' /\ AllEnabled' /\ Removed'
  BY DEF IInv, Topmost, AllEnabled, Removed, NotAssociated
<1> QED BY <1>2, <1>3, <1>4, <1>5, <1>6, <1>7 DEF IInv

\* After a refusal nothing more is said of the list.
LEMMA RefusedKeeps ==
  ASSUME IInv, Refused PROVE IInv'
<1>1. Flags'
  BY Zenon DEF IInv, TypeOK, Flags, Refused
<1>2. TypeOK'
  BY <1>1, SsidsAssumption, IdsAssumption, SMTT(30) DEF IInv, TypeOK, Control, Network,
     KeyTypes, Refused
<1>3. Control' /\ Kept' /\ Gained'
  BY DEF IInv, Control, Kept, Gained, Refused
<1>4. Found' /\ Added'
  BY DEF IInv, Found, Added, Refused
<1>5. Tidy'
  BY DEF IInv, Tidy, Refused
<1>6. Complete'
  BY DEF IInv, Complete, Refused
<1>7. Topmost' /\ AllEnabled' /\ Removed'
  BY DEF IInv, Topmost, AllEnabled, Removed, Refused
<1> QED BY <1>2, <1>3, <1>4, <1>5, <1>6, <1>7 DEF IInv

\* Forgetting removes the one network of that name that is not new.
LEMMA ForgetKeeps ==
  ASSUME IInv, Forget PROVE IInv'
<1>1. Flags'
  BY Zenon DEF IInv, TypeOK, Flags, Forget, TryToRemove, Delete
<1>2. TypeOK'
  BY <1>1, SsidsAssumption, IdsAssumption, SMTT(30) DEF IInv, TypeOK, Control, Network,
     KeyTypes, Forget, TryToRemove, Delete
<1>3. Control' /\ Kept' /\ Gained'
  BY DEF IInv, Control, Kept, Gained, Forget, TryToRemove, Delete
<1>4. Found' /\ Added'
  BY DEF IInv, Found, Added, Forget, TryToRemove, Delete
<1>5. Tidy'
  BY SsidsAssumption, IdsAssumption, SMTT(30) DEF IInv, TypeOK, Tidy, Control, Once,
     Added, Complete, Forget, TryToRemove, Delete
<1>6. Complete'
  BY DEF IInv, Complete, Forget, TryToRemove, Delete
<1>7. Topmost' /\ AllEnabled' /\ Removed'
  BY DEF IInv, Topmost, AllEnabled, Removed, Forget, TryToRemove, Delete
<1> QED BY <1>2, <1>3, <1>4, <1>5, <1>6, <1>7 DEF IInv

\* Disabling leaves the list alone.
LEMMA DisableKeeps ==
  ASSUME IInv, Disable PROVE IInv'
<1>1. Flags'
  BY Zenon DEF IInv, TypeOK, Flags, Disable
<1>2. TypeOK'
  BY <1>1, SsidsAssumption, IdsAssumption, SMTT(30) DEF IInv, TypeOK, Control, Network,
     KeyTypes, Disable
<1>3. Control' /\ Kept' /\ Gained'
  BY DEF IInv, Control, Kept, Gained, Disable
<1>4. Found' /\ Added'
  BY DEF IInv, TypeOK, Found, Added, Control, KeyType, Matching, Disable
<1>5. Tidy'
  BY DEF IInv, TypeOK, Tidy, Control, Once, Added, Disable
<1>6. Complete'
  BY DEF IInv, Complete, Disable
<1>7. Topmost' /\ AllEnabled' /\ Removed'
  BY DEF IInv, Topmost, AllEnabled, Removed, Disable
<1> QED BY <1>2, <1>3, <1>4, <1>5, <1>6, <1>7 DEF IInv

\* Dropping restores the list.
LEMMA DropKeeps ==
  ASSUME IInv, Drop PROVE IInv'
<1>1. Flags'
  BY Zenon DEF IInv, TypeOK, Flags, Drop, TryToRemove, Delete
<1>2. TypeOK'
  BY <1>1, SsidsAssumption, IdsAssumption, SMTT(30) DEF IInv, TypeOK, Control, Network,
     KeyTypes, Drop, TryToRemove, Delete
<1>3. Control' /\ Kept' /\ Gained'
  BY DEF IInv, TypeOK, Control, Kept, Gained, Drop, TryToRemove, Delete
<1>4. Found' /\ Added'
  BY DEF IInv, Found, Added, Drop, TryToRemove, Delete
<1>5. Tidy'
  BY DEF IInv, TypeOK, Tidy, Control, Once, Added, Drop, TryToRemove, Delete
<1>6. Complete'
  BY DEF IInv, Complete, Drop, TryToRemove, Delete
<1>7. main' = "enable_all" /\ ret' = "error" /\ ret' = ret
  BY DEF IInv, Control, Drop
<1>8. Topmost' /\ AllEnabled' /\ Removed'
  BY <1>7 DEF Topmost, AllEnabled, Removed
<1> QED BY <1>2, <1>3, <1>4, <1>5, <1>6, <1>8 DEF IInv

\* An attempt ends, or WEP is tried after WPA.
LEMMA EnableAllKeeps ==
  ASSUME IInv, EnableAll PROVE IInv'
<1>1. Flags'
  BY Zenon DEF IInv, TypeOK, Flags, EnableAll
<1>2. TypeOK'
  BY <1>1, SsidsAssumption, IdsAssumption, SMTT(30) DEF IInv, TypeOK, Control, Network,
     KeyTypes, EnableAll
<1>3. Control' /\ Kept' /\ Gained'
  BY DEF IInv, TypeOK, Control, Kept, Gained, EnableAll
<1>4. Found' /\ Added'
  BY DEF IInv, Found, Added, EnableAll
<1>5. Tidy'
  BY DEF IInv, TypeOK, Tidy, Control, Once, Added, EnableAll
<1>6. Complete'
  BY DEF IInv, Complete, EnableAll
<1>7. Topmost' /\ AllEnabled' /\ Removed'
  BY DEF IInv, TypeOK, Topmost, AllEnabled, Removed, Control, Tidy, Complete, Found,
     Added, EnableAll
<1> QED BY <1>2, <1>3, <1>4, <1>5, <1>6, <1>7 DEF IInv

\* Choosing by id leaves the list alone ...
LEMMA PickKeeps ==
  ASSUME IInv, Pick PROVE IInv'
<1>1. Flags'
  BY Zenon DEF IInv, TypeOK, Flags, Pick
<1>2. TypeOK'
  BY <1>1, SsidsAssumption, IdsAssumption, SMTT(30) DEF IInv, TypeOK, Control, Network,
     KeyTypes, Pick
<1>3. Control' /\ Kept' /\ Gained'
  BY DEF IInv, Control, Kept, Gained, Pick
<1>4. Found' /\ Added'
  BY DEF IInv, Found, Added, Pick
<1>5. Tidy'
  BY DEF IInv, TypeOK, Tidy, Control, Once, Added, Pick
<1>6. Complete'
  BY DEF IInv, Complete, Pick
<1>7. Topmost' /\ AllEnabled' /\ Removed'
  BY DEF IInv, TypeOK, Topmost, AllEnabled, Removed, Control, Tidy, Complete, Found,
     Added, Pick
<1> QED BY <1>2, <1>3, <1>4, <1>5, <1>6, <1>7 DEF IInv

\* ... and so does waiting for the association.
LEMMA PickWaitKeeps ==
  ASSUME IInv, PickWait PROVE IInv'
<1>1. Flags'
  BY Zenon DEF IInv, TypeOK, Flags, PickWait
<1>2. TypeOK'
  BY <1>1, SsidsAssumption, IdsAssumption, SMTT(30) DEF IInv, TypeOK, Control, Network,
     KeyTypes, PickWait
<1>3. Control' /\ Kept' /\ Gained'
  BY DEF IInv, Control, Kept, Gained, PickWait
<1>4. Found' /\ Added'
  BY DEF IInv, Found, Added, PickWait
<1>5. Tidy'
  BY DEF IInv, TypeOK, Tidy, Control, Once, Added, PickWait
<1>6. Complete'
  BY DEF IInv, Complete, PickWait
<1>7. Topmost' /\ AllEnabled' /\ Removed'
  BY DEF IInv, TypeOK, Topmost, AllEnabled, Removed, Control, Tidy, Complete, Found,
     Added, PickWait
<1> QED BY <1>2, <1>3, <1>4, <1>5, <1>6, <1>7 DEF IInv

\* Events change the state only.
LEMMA EventsKeeps ==
  ASSUME IInv, Events PROVE IInv'
<1>1. Flags'
  BY Zenon DEF IInv, TypeOK, Flags, Events
<1>2. TypeOK'
  BY <1>1, SsidsAssumption, IdsAssumption, SMTT(30) DEF IInv, TypeOK, Control, Network,
     KeyTypes, Events
<1>3. Control' /\ Kept' /\ Gained'
  BY DEF IInv, Control, Kept, Gained, Events
<1>4. Found' /\ Added'
  BY DEF IInv, Found, Added, Events
<1>5. Tidy'
  BY DEF IInv, TypeOK, Tidy, Control, Once, Added, Events
<1>6. Complete'
  BY DEF IInv, Complete, Events
<1>7. Topmost' /\ AllEnabled' /\ Removed'
  BY DEF IInv, Topmost, AllEnabled, Removed, Events
<1> QED BY <1>2, <1>3, <1>4, <1>5, <1>6, <1>7 DEF IInv

\* Nothing is claimed of an operation whose answers are not its own.
LEMMA GoesAstrayKeeps ==
  ASSUME IInv, GoesAstray PROVE IInv'
<1>1. Flags'
  BY Zenon DEF IInv, TypeOK, Flags, GoesAstray
<1>2. TypeOK'
  BY <1>1, SsidsAssumption, IdsAssumption, SMTT(30) DEF IInv, TypeOK, Control, Network,
     KeyTypes, GoesAstray
<1>3. Control' /\ Kept' /\ Gained'
  BY DEF IInv, Control, Kept, Gained, GoesAstray
<1>4. Found' /\ Added'
  BY DEF IInv, Found, Added, GoesAstray
<1>5. Tidy'
  BY DEF IInv, TypeOK, Tidy, Control, Once, Added, GoesAstray
<1>6. Complete'
  BY DEF IInv, Complete, GoesAstray
<1>7. Topmost' /\ AllEnabled' /\ Removed'
  BY DEF IInv, Topmost, AllEnabled, Removed, GoesAstray
<1> QED BY <1>2, <1>3, <1>4, <1>5, <1>6, <1>7 DEF IInv

\* A network that is not found is not there.
LEMMA FindKeeps ==
  ASSUME IInv, Find PROVE IInv'
<1>1. Flags'
  BY Zenon DEF IInv, TypeOK, Flags, Find, FindsOne
<1>2. TypeOK'
  BY <1>1, SsidsAssumption, IdsAssumption, SMTT(30) DEF IInv, TypeOK, Control, Network,
     KeyTypes, Matching, Find, FindsOne
<1>3. Control' /\ Kept' /\ Gained'
  BY DEF IInv, Control, Kept, Gained, Find, FindsOne
<1>4. Found' /\ Added'
  BY DEF IInv, TypeOK, Found, Added, Control, KeyType, Matching, Find, FindsOne
<1>5. Tidy'
  BY DEF IInv, TypeOK, Tidy, Control, Once, Added, Find, FindsOne
<1>6. Complete'
  BY SsidsAssumption, IdsAssumption, SMTT(30) DEF IInv, TypeOK, Complete, Control, Found,
     Added, KeyType, Once, Tidy, Matching, Plain, Find, FindsOne
<1>7. Topmost' /\ AllEnabled'
  BY DEF IInv, Control, Topmost, AllEnabled, Find, Attempts, call
<1>8. Removed'
  <2> SUFFICES ASSUME main' = "idle", ~ untidy', Plain(ssid'), NEW n \in Saved,
                      networks[n].ssid = ssid, networks[n].key_mgmt = KeyType(key)
               PROVE  FALSE
    BY DEF Removed, Find, Saved, list, call
  <2>1. ~ untidy /\ ssid \in Ssids /\ Plain(ssid) /\ Succeeds
    BY DEF IInv, Control, Tidy, Find, FindsOne, Succeeds, Fails, history, call
  <2>2. n \in Matching(ssid, key)
    BY <2>1, PlainMatching DEF IInv
  <2>3. netid1' # None
    BY <2>1, <2>2, IdsAssumption DEF Find, FindsOne, Fails, Matching, Saved
  <2> QED BY <2>3 DEF Find, Return
<1> QED BY <1>2, <1>3, <1>4, <1>5, <1>6, <1>7, <1>8 DEF IInv

\* A removed network was the only one.
LEMMA RemoveKeeps ==
  ASSUME IInv, Remove PROVE IInv'
<1>1. Flags'
  BY Zenon DEF IInv, TypeOK, Flags, Remove, Delete
<1>2. TypeOK'
  BY <1>1, SsidsAssumption, IdsAssumption, SMTT(30) DEF IInv, TypeOK, Control, Network,
     KeyTypes, Remove, Delete
<1>3. Control' /\ Kept' /\ Gained'
  BY DEF IInv, Control, Kept, Gained, Remove, Delete
<1>4. Found' /\ Added'
  BY DEF IInv, Found, Added, Remove, Delete
<1>5. Tidy'
  BY DEF IInv, TypeOK, Tidy, Control, Once, Added, Remove, Delete
<1>6. Complete'
  BY DEF IInv, Complete, Remove, Delete
<1>7. Topmost' /\ AllEnabled' /\ Removed'
  BY DEF IInv, TypeOK, Topmost, AllEnabled, Removed, Control, Tidy, Complete, Found,
     Added, KeyType, Matching, Once, Remove, Delete
<1> QED BY <1>2, <1>3, <1>4, <1>5, <1>6, <1>7 DEF IInv

\* An empty list has every property.
LEMMA RemoveAllKeeps ==
  ASSUME IInv, RemoveAll PROVE IInv'
<1>1. Flags'
  BY Zenon DEF IInv, TypeOK, Flags, RemoveAll, Delete
<1>2. TypeOK'
  BY <1>1, SsidsAssumption, IdsAssumption, SMTT(30) DEF IInv, TypeOK, Control, Network,
     KeyTypes, RemoveAll, Delete
<1>3. Control' /\ Kept' /\ Gained'
  BY DEF IInv, Control, Kept, Gained, RemoveAll, Delete
<1>4. Found' /\ Added'
  BY DEF IInv, Found, Added, RemoveAll, Delete
<1>5. Tidy'
  BY DEF IInv, TypeOK, Tidy, Control, Once, Added, RemoveAll, Delete
<1>6. Complete'
  BY DEF IInv, Complete, RemoveAll, Delete
<1>7. Topmost' /\ AllEnabled' /\ Removed'
  BY DEF IInv, TypeOK, Topmost, AllEnabled, Removed, Control, Tidy, Complete, Found,
     Added, RemoveAll, Delete
<1> QED BY <1>2, <1>3, <1>4, <1>5, <1>6, <1>7 DEF IInv

(***************************************************************************)
(* Theorems.                                                               *)
(***************************************************************************)

LEMMA InitKeeps == ASSUME Init PROVE IInv
<1>1. /\ networks \in [Ids -> Network \cup {None}]
      /\ \A n \in Saved : networks[n] \in Network
  <2> DEFINE Plainest == [ssid : Ssids, key_mgmt : {"WPA-PSK", "NONE"}, priority : {0}]
  <2>1. Plainest \subseteq Network
    BY DEF Network, KeyTypes
  <2>2. networks \in [Ids -> {None} \cup Plainest]
    BY DEF Init
  <2> HIDE DEF Plainest
  <2> QED BY <2>1, <2>2
<1>2. TypeOK
  BY <1>1, IdsAssumption, SsidsAssumption DEF Init, TypeOK, Flags
<1>3. Control /\ Kept /\ Gained /\ Found /\ Added
  BY DEF Init, Control, Kept, Gained, Found, Added
<1>4. Once(Saved)
  <2> SUFFICES ASSUME NEW m \in Saved, NEW n \in Saved, networks[m].ssid = networks[n].ssid,
                      networks[m].key_mgmt = networks[n].key_mgmt
               PROVE  m = n
    BY DEF Once
  <2>1. networks[m].priority = 0 /\ networks[n].priority = 0
    BY SsidsAssumption DEF Init
  <2>2. networks[m] = networks[n]
    BY <1>1, <2>1 DEF Network
  <2> QED BY <2>2 DEF Init
<1>5. Tidy /\ Complete /\ Topmost /\ AllEnabled /\ Removed
  BY <1>4 DEF Init, Tidy, Complete, Topmost, AllEnabled, Removed
<1> QED BY <1>2, <1>3, <1>5 DEF IInv

LEMMA StepKeeps == ASSUME IInv, [Next]_vars PROVE IInv'
<1>1. CASE UNCHANGED vars
  BY <1>1 DEF vars, IInv, TypeOK, Flags, Control, Kept, Gained, Found, Added, Tidy, Once,
     Complete, Topmost, AllEnabled, Removed, Matching
<1>2. CASE Operation
  BY <1>2, ConnectKeeps, AddNetworkKeeps, RemoveNetworkKeeps, WithNetidKeeps,
     ConnectAutoKeeps, RemoveAllNetworksKeeps, AnswerKeeps, AddRefusedKeeps
     DEF Operation, ConnectKeyMgmt, Refuse, ListNetworks, GetNetid
<1>3. CASE Attempt
  BY <1>3, SearchKeeps, AddKeeps, SetKeeps, SelectKeeps, AssociatedKeeps,
     NotAssociatedKeeps,
     RefusedKeeps, ForgetKeeps, DisableKeeps, DropKeeps, EnableAllKeeps DEF Attempt
<1>4. CASE Pick \/ PickWait \/ Events \/ GoesAstray \/ Find \/ Remove \/ RemoveAll
  BY <1>4, PickKeeps, PickWaitKeeps, EventsKeeps, GoesAstrayKeeps, FindKeeps, RemoveKeeps, RemoveAllKeeps
<1> QED BY <1>1, <1>2, <1>3, <1>4 DEF Next

LEMMA Invariance == Spec => []IInv
BY InitKeeps, StepKeeps, PTL DEF Spec

\* Types; and while an attempt handles the network it has added, that network is
\* in the list and is not the one it has found.
THEOREM TypeCorrect == Spec => []TypeOK
<1>1. IInv => TypeOK BY DEF IInv
<1> QED BY <1>1, Invariance, PTL

\* connect_ap and add_network keep all networks when they fail, whichever of their
\* commands is answered FAIL, and leave none of their own unless one was or the link
\* was lost.  An answer that came too late ends the claim: a command that takes it for
\* its own may set or remove any network.
THEOREM FailureRestoresCorrect == Spec => []FailureRestores
<1>1. IInv => FailureRestores BY DEF IInv, Kept, Gained, FailureRestores
<1> QED BY <1>1, Invariance, PTL

\* After connect_ap and add_network every network can be chosen again.
THEOREM AllEnabledCorrect == Spec => []AllEnabled
<1>1. IInv => AllEnabled BY DEF IInv
<1> QED BY <1>1, Invariance, PTL

\* A plain name is saved once per kind of key.
THEOREM SavedOnceCorrect == Spec => []SavedOnce
<1>1. IInv => SavedOnce BY DEF IInv, Tidy, Once, SavedOnce
<1> QED BY <1>1, Invariance, PTL

\* The network last connected to has the highest priority.
THEOREM MostRecentFirstCorrect == Spec => []MostRecentFirst
<1>1. IInv => MostRecentFirst BY DEF IInv, Topmost, MostRecentFirst
<1> QED BY <1>1, Invariance, PTL

\* What aw_wifi_remove_network says is removed is gone.
THEOREM RemovedCorrect == Spec => []Removed
<1>1. IInv => Removed BY DEF IInv
<1> QED BY <1>1, Invariance, PTL

\* Only Forget, Drop, Remove and RemoveAll remove anything, and what the first three
\* remove is the network found, which is still what the search saw, or the one added.
LEMMA RemovesItsOwn ==
  ASSUME IInv, [Next]_vars, NEW n \in before, op # "remove_all", ~ astray,
         ssid \in Ssids => Plain(ssid), networks[n] # None, networks'[n] = None
  PROVE  networks[n].ssid = ssid /\ networks[n].key_mgmt = KeyType(key)
<1>0. n \in Saved /\ TypeOK /\ networks' # networks
  BY DEF IInv, TypeOK
<1>1. CASE Forget \/ Remove
  <2>1. n = netid1 /\ ssid \in Ssids
    BY <1>0, <1>1 DEF IInv, TypeOK, Control, Forget, Remove, TryToRemove, Delete
  <2>2. netid1 \in Matching(ssid, key)
    BY <1>0, <1>1, <2>1, IdsAssumption DEF IInv, Found, Forget, Remove
  <2> QED BY <1>0, <2>1, <2>2, PlainMatching
<1>2. CASE Drop
  BY <1>0, <1>2 DEF TypeOK, Drop, TryToRemove, Delete
<1>3. CASE RemoveAll
  BY <1>3 DEF IInv, Control, RemoveAll
<1>4. CASE Add \/ Set
  BY <1>0, <1>4, SsidsAssumption
     DEF TypeOK, Add, Set, Fresh, Named, Network, KeyTypes, KeyType, Highest
<1>5. CASE Operation
  BY <1>0, <1>5 DEF Operation, Connect, ConnectKeyMgmt, AddNetwork, RemoveNetwork, GetNetid,
     WithNetid, ConnectAuto, RemoveAllNetworks, ListNetworks, Refuse, AddRefused, Answer
<1>6. CASE Search \/ Select \/ Associated \/ NotAssociated \/ Refused \/ Disable \/ EnableAll
  BY <1>0, <1>6 DEF Search, Select, Associated, NotAssociated, Refused, Disable, EnableAll
<1>7. CASE Pick \/ PickWait \/ Events \/ GoesAstray \/ Find
  BY <1>0, <1>7 DEF Pick, PickWait, Events, GoesAstray, Find
<1>8. CASE UNCHANGED vars
  BY <1>0, <1>8 DEF vars
<1> QED BY <1>1, <1>2, <1>3, <1>4, <1>5, <1>6, <1>7, <1>8 DEF Next, Attempt

\* A plain name's operation removes no other network than that of the name and kind of
\* key it was called with, whichever commands are answered FAIL, as long as every
\* answer is its command's own.
THEOREM RemovesOnlyItsOwnCorrect == Spec => RemovesOnlyItsOwn
<1>1. IInv /\ [Next]_vars =>
        [\A n \in before :
           /\ op # "remove_all" /\ Plain(ssid) /\ ~ astray
           /\ networks[n] # None /\ networks'[n] = None
           => networks[n].ssid = ssid /\ networks[n].key_mgmt = KeyType(key)]_vars
  BY RemovesItsOwn
<1> QED BY <1>1, Invariance, PTL DEF Spec, RemovesOnlyItsOwn

\* If all names are plain and every answer is its command's own, connect_ap and
\* add_network never remove another network: the two reasons why they do are that a
\* name is searched for in text (networks_suffix) and answers that go astray.
THEOREM OthersKeptCorrect ==
  ASSUME \A s \in Ssids : Plain(s) PROVE Spec => OthersKept
<1>1. IInv /\ [Next]_vars =>
        [\A n \in before :
           op \in Attempts /\ ~ astray /\ networks[n] # None /\ networks'[n] = None
           => networks[n].ssid = ssid]_vars
  BY RemovesItsOwn DEF Attempts
<1> QED BY <1>1, Invariance, PTL DEF Spec, OthersKept

\* connect_ap, add_network and the waiting part of connect_ap_with_netid do not
\* return in CONNECTING.
THEOREM StateRestoredCorrect == Spec => StateRestored
<1> DEFINE Restored == main \in InAttempt \cup {"pick_wait"} /\ main' = "idle"
                         => machine_state' # "CONNECTING"
<1>1. ASSUME IInv, [Next]_vars PROVE Restored
  <2> SUFFICES ASSUME main \in InAttempt \cup {"pick_wait"}, main' = "idle"
               PROVE  machine_state' # "CONNECTING"
    OBVIOUS
  <2>1. CASE EnableAll
    BY <1>1, <2>1 DEF IInv, Control, EnableAll
  <2>2. CASE PickWait
    BY <2>2 DEF PickWait
  <2>3. CASE Operation
    BY <2>3 DEF Operation, Begin, Connect, ConnectKeyMgmt, AddNetwork, RemoveNetwork,
       GetNetid, WithNetid, ConnectAuto, RemoveAllNetworks, ListNetworks, Refuse, AddRefused,
       Answer
  <2>4. CASE Search \/ Add \/ Set \/ Select \/ Associated \/ NotAssociated \/ Refused \/ Forget
             \/ Disable \/ Drop
    BY <2>4 DEF Search, Add, Set, Select, Associated, NotAssociated, Refused, Forget, Disable,
       Drop
  <2>5. CASE Pick \/ Events \/ GoesAstray \/ Find \/ Remove \/ RemoveAll
    BY <2>5 DEF Pick, Events, GoesAstray, Find, Remove, RemoveAll
  <2>6. CASE UNCHANGED vars
    BY <2>6 DEF vars
  <2> QED BY <1>1, <2>1, <2>2, <2>3, <2>4, <2>5, <2>6 DEF Next, Attempt
<1>2. IInv /\ [Next]_vars => [Restored]_vars
  BY <1>1
<1> QED BY <1>2, Invariance, PTL DEF Spec, StateRestored
=============================================================================
