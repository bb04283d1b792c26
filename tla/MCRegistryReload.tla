---------------------------- MODULE MCRegistryReload --------------------------
(* Four files: the second is refused, the third moves an alias between a     *)
(* collector and the global ones and adds a collector, the last drops a      *)
(* collector and every alias.                                                *)
EXTENDS RegistryReload
CONSTANTS t1, t2, cpu, gpu, a1, a2
TwoReaders == {t1, t2}
OneReader == {t1}
Collector(n, as) == [name |-> n, aliases |-> as]
First == [collectors |-> <<Collector(cpu, <<a1>>)>>, global |-> <<a2>>]
Second == [collectors |-> <<Collector(cpu, <<a2>>), Collector(gpu, <<>>)>>,
           global |-> <<a1>>]
Twice == [collectors |-> <<Collector(gpu, <<a1>>)>>, global |-> <<a1>>]
Fewer == [collectors |-> <<Collector(gpu, <<>>)>>, global |-> <<>>]
FourFiles == <<First, Twice, Second, Fewer>>
=============================================================================
