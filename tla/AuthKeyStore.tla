---------------------------- MODULE AuthKeyStore ----------------------------
(***************************************************************************)
(* The in-memory store of public keys that a session registers with the    *)
(* AUTHKEY command and that later handshakes of the same user may offer    *)
(* (internal/ssh/server/authkeystore.go), the authorized_keys files behind *)
(* it (publickeycallback.go) and the password strategies of the built-in   *)
(* users (internal/server/server.go).  The store's operations take the     *)
(* time as a parameter because the code reads the clock BEFORE it takes    *)
(* the lock: two callers may apply their times in the opposite order.      *)
(***************************************************************************)
EXTENDS Naturals, Sequences, FiniteSets

CONSTANTS
    Users, Keys,
    TTL, MaxKeysPerUser,   \* AuthKeyTTLSeconds, AuthKeyMaxPerUser
    AuthKeyEnabled,
    CachedKeys, HomeKeys,  \* authorized_keys lines by user, <<>> = no file
    Jobs,                  \* scheduled and continuous jobs: owner, name, allowFrom
    HealthUser,
    Resolve                \* net.LookupIP: [addresses that resolve -> SUBSET IPs]

ASSUME StoreAssumption == TTL \in Nat \ {0} /\ MaxKeysPerUser \in Nat \ {0}

VARIABLE keysByUser        \* [Users -> set of entries]; nr is an entry's place in the slice

StoreInit == keysByUser = [u \in Users |-> {}]

Expired(entry, now) == entry.registeredAt + TTL <= now

PruneExpired(u, now) == {entry \in keysByUser[u] : ~Expired(entry, now)}

\* Mutant: the limit keeps the oldest keys.
AddKeepsOldest(u, key, now, nr) ==
    LET all == {entry \in PruneExpired(u, now) : entry.pubKey # key}
               \union {[pubKey |-> key, registeredAt |-> now, nr |-> nr]}
        Older(entry) == {e \in all : e.nr < entry.nr}
    IN  keysByUser' = [keysByUser EXCEPT
            ![u] = {entry \in all : Cardinality(Older(entry)) < MaxKeysPerUser}]

\* The locked part of Add: drop the expired entries and the old entry of this
\* key, append the new one, keep the last MaxKeysPerUser.
Add(u, key, now, nr) ==
    LET all == {entry \in PruneExpired(u, now) : entry.pubKey # key}
               \union {[pubKey |-> key, registeredAt |-> now, nr |-> nr]}
        Newer(entry) == {e \in all : e.nr > entry.nr}
    IN  keysByUser' = [keysByUser EXCEPT
            ![u] = {entry \in all : Cardinality(Newer(entry)) < MaxKeysPerUser}]

\* Mutant: expired keys are still found.
HasIgnoresExpiry(u, key, now) == \E entry \in keysByUser[u] : entry.pubKey = key

\* The locked part of Has: it prunes, then looks the key up.
Has(u, key, now) == \E entry \in PruneExpired(u, now) : entry.pubKey = key

Prune(u, now) == keysByUser' = [keysByUser EXCEPT ![u] = PruneExpired(u, now)]

\* The file that counts: the cached copy hides the one in the home directory.
AuthorizedKeysFile(u) == IF CachedKeys[u] # <<>> THEN CachedKeys[u] ELSE HomeKeys[u]

\* A line that does not parse is no key and is skipped.
InAuthorizedKeys(u, key) ==
    \E i \in DOMAIN AuthorizedKeysFile(u) : AuthorizedKeysFile(u)[i] = key

PublicKeyAccepted(u, key, now) ==
    (AuthKeyEnabled /\ Has(u, key, now)) \/ InAuthorizedKeys(u, key)

BackgroundCanSSH(job, secret, ip) ==
    /\ secret = job.name
    /\ \E addr \in job.allowFrom \intersect DOMAIN Resolve : ip \in Resolve[addr]

\* The password callback: only the built-in users have a strategy.
PasswordAccepted(u, secret, ip) ==
    \/ u = HealthUser /\ secret = HealthUser
    \/ \E job \in Jobs : job.owner = u /\ BackgroundCanSSH(job, secret, ip)
=============================================================================
