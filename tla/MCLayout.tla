------------------------------ MODULE MCLayout -------------------------------
(* Layout on disks of 12 to 44 blocks: 13 sizes, clusters of one to three blocks, *)
(* the index file in each of its places, three deltas.                         *)
EXTENDS Layout

CONSTANTS Sizes, ClusterSizes

MCSizes == {12, 16, 17, 23, 24, 25, 31, 32, 33, 36, 40, 43, 44}

MCOptions ==
  {o \in [blocks : Sizes, cluster : ClusterSizes, maxFiles : {0, 9}, headers : {0, 6},
          directories : {1, 4}, index : {"beginning", "middle", "end", "at"}, at : {0, 5, 17},
          delta : {1, 3, 4}] :
     o.index = "at" <=> o.at # 0}

=============================================================================
