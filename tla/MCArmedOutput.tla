---------------------------- MODULE MCArmedOutput ----------------------------
(* Instances of ArmedOutput for TLC.                                         *)
EXTENDS ArmedOutput

TwoTemps == {0, 1}

(* Every tool and option, with hard links and without.                      *)
AllSetups ==
  [tool : {"gzip", "bsdgzip", "xz", "zstd", "bzip2", "ncompress"},
   forced : BOOLEAN, keep : BOOLEAN, links : BOOLEAN]

Ncompress == [tool : {"ncompress"}, forced : {FALSE}, keep : {FALSE}, links : {TRUE}]
===============================================================================
