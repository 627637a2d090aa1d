------------------------------ MODULE MCLogins ------------------------------
EXTENDS Logins, TLC
CONSTANTS kiro1, google1, aws, gcp, ann, bob
MCProviderOf == [f \in Flow |-> IF f \in Kiro THEN aws ELSE gcp]
MCUserOf == [f \in Flow |-> ann]
MCEarlier == {<<SignedIn(aws, bob, 1)>>}
Threads == Permutations(Thread)
=============================================================================
