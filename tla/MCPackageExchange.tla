------------------------- MODULE MCPackageExchange -------------------------
(***************************************************************************)
(* Instances of PackageExchange for TLC: an Integer array in each byte     *)
(* order, a string, and the two packed integers of the example             *)
(* TestSerialPackagerBitPack_UDP with one that spans five bytes.           *)
(***************************************************************************)
EXTENDS PackageExchange

MCBlocks ==
  {[op |-> "array", unit |-> 4, n |-> 1, endian |-> Little],
   [op |-> "array", unit |-> 2, n |-> 2, endian |-> Big],
   [op |-> "string", bufferSize |-> 2],
   [op |-> "pack", bitOffset |-> 0, width |-> 3],
   [op |-> "pack", bitOffset |-> 5, width |-> 10],
   [op |-> "pack", bitOffset |-> 1, width |-> 32]}

MCHosts == {[tx |-> Big, rx |-> Little]}

Wide == {[op |-> "pack", bitOffset |-> 3, width |-> 32]}
=============================================================================
