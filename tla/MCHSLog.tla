------------------------------- MODULE MCHSLog -------------------------------
(* Instances of HSLog: contents of the file of settings.  One has a level that *)
(* does not fit in its field, and lines that later lines override.             *)
EXTENDS HSLog

Level(n) == <<"LOGLEVEL", n>>

ThreeFiles == {<<>>, <<Level(4), <<"MULTICAST", 1>>, <<"UNICAST", 1>>>>,
               <<<<"LOGFILELEVEL", -1>>, Level(4), <<"LOGTOFILE", 3>>, <<"UNICAST", 0>>,
                 Level(2)>>}
TwoFiles   == {<<>>, <<Level(4)>>}
===============================================================================
