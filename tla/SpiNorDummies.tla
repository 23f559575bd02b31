--------------------------- MODULE SpiNorDummies ----------------------------
(***************************************************************************)
(* The wait clocks that SPI-NOR chips can be set to before they answer a   *)
(* read (SNOR_DC_TABLE): for a width, the settings in the order they are   *)
(* tried, each with the index that selects it in the chip, the clocks, the *)
(* mode clocks included, and the highest rate in MHz.                      *)
(***************************************************************************)
EXTENDS Integers, Sequences, TLC

\* A table that is the same for several widths.
On(ios, settings) == [io \in ios |-> settings]

\* DC_TUPLES_10, DC_TUPLES_14: indices that are the clocks they select.
Run(lo, hi, mhz) == [i \in 1..(hi - lo + 1) |-> <<lo + i - 1, lo + i - 1, mhz>>]

\* vendor-atmel.c
atmel_dc_tables ==
  [at25ql321 |-> "4_4_4" :> <<<<2, 6, 104>>, <<0, 4, 80>>>>,
   at25ql641 |-> "4_4_4" :> <<<<3, 8, 133>>, <<2, 6, 104>>, <<0, 4, 80>>>>,
   at25ff041a |->
     "1_4_4" :> <<<<4, 10, 108>>, <<3, 8, 85>>, <<2, 6, 60>>, <<1, 4, 45>>, <<0, 2, 25>>>>,
   at25ff161a |->
     "1_4_4" :> <<<<4, 10, 90>>, <<3, 8, 70>>, <<2, 6, 50>>, <<1, 4, 40>>, <<0, 2, 20>>>>,
   at25ff321a |->
     "1_4_4" :> <<<<4, 10, 100>>, <<3, 8, 90>>, <<2, 6, 75>>, <<1, 4, 50>>, <<0, 2, 30>>>>]

\* vendor-eon.c
eon_dc_tables ==
  [en25s80b |->
     On({"1_4_4", "4_4_4"}, <<<<0, 6, 104>>, <<2, 8, 104>>, <<3, 10, 104>>, <<1, 4, 50>>>>),
   en25qe16a |->
     ("1_2_2" :> <<<<1, 8, 104>>, <<0, 4, 66>>>>)
       @@ ("1_4_4" :> <<<<1, 10, 104>>, <<0, 6, 66>>>>)]

\* vendor-gigadevice.c
gigadevice_dc_tables_1 ==
  [gd_1bit_all_104mhz |->
     ("1_2_2" :> <<<<0, 4, 104>>, <<1, 8, 104>>>>)
       @@ ("1_4_4" :> <<<<0, 6, 104>>, <<1, 10, 104>>>>),
   gd_1bit_60_50mhz |->
     ("1_2_2" :> <<<<0, 4, 60>>, <<1, 8, 50>>>>)
       @@ ("1_4_4" :> <<<<0, 6, 60>>, <<1, 10, 50>>>>),
   gd_1bit_120_104mhz |->
     ("1_2_2" :> <<<<1, 8, 120>>, <<0, 4, 104>>>>)
       @@ ("1_4_4" :> <<<<1, 10, 120>>, <<0, 6, 104>>>>),
   gd25le128e |->
     ("1_4_4" :> <<<<3, 10, 133>>, <<2, 8, 133>>, <<0, 6, 120>>, <<1, 6, 120>>>>)
       @@ ("4_4_4" :> <<<<3, 10, 133>>, <<2, 8, 133>>, <<1, 6, 108>>, <<0, 4, 80>>>>),
   gd25lf128e |->
     ("1_4_4" :> <<<<3, 10, 166>>, <<2, 8, 133>>, <<0, 6, 120>>, <<1, 6, 120>>>>)
       @@ ("4_4_4" :> <<<<3, 10, 166>>, <<2, 8, 133>>, <<1, 6, 108>>, <<0, 4, 80>>>>),
   gd25q256c |->
     ("1_1_1" :> <<<<0, 8, 104>>, <<3, 0, 50>>>>)
       @@ On({"1_1_2", "1_1_4"}, <<<<1, 8, 104>>, <<0, 8, 80>>, <<3, 6, 80>>>>)
       @@ ("1_2_2" :> <<<<1, 6, 104>>, <<0, 4, 80>>, <<3, 4, 80>>>>)
       @@ ("1_4_4" :> <<<<1, 8, 104>>, <<0, 6, 80>>, <<3, 6, 80>>>>),
   gd_2bit_133_104mhz |->
     ("1_2_2" :> <<<<1, 8, 133>>, <<3, 8, 133>>, <<0, 4, 104>>, <<2, 4, 104>>>>)
       @@ ("1_4_4" :> <<<<1, 10, 133>>, <<3, 10, 133>>, <<0, 6, 104>>, <<2, 6, 104>>>>),
   gd_2bit_90_80mhz |->
     ("1_2_2" :> <<<<1, 8, 90>>, <<3, 8, 90>>, <<0, 4, 80>>, <<2, 4, 80>>>>)
       @@ ("1_4_4" :> <<<<1, 10, 90>>, <<3, 10, 90>>, <<0, 6, 80>>, <<2, 6, 80>>>>),
   gd_2bit_60_50mhz |->
     ("1_2_2" :> <<<<1, 8, 60>>, <<3, 8, 60>>, <<0, 4, 50>>, <<2, 4, 50>>>>)
       @@ ("1_4_4" :> <<<<1, 10, 60>>, <<3, 10, 60>>, <<0, 6, 50>>, <<2, 6, 50>>>>),
   gd25le255e |->
     ("1_4_4" :> <<<<3, 10, 133>>, <<2, 8, 133>>, <<0, 6, 120>>, <<1, 6, 120>>>>)
       @@ ("4_4_4" :> <<<<2, 8, 133>>, <<1, 6, 108>>, <<0, 4, 80>>>>)]

gigadevice_dc_tables_2 ==
  [gd25lb256e |->
     On({"1_4_4", "4_4_4"}, Run(10, 30, 133) \o <<<<8, 8, 104>>, <<6, 6, 84>>, <<4, 4, 40>>>>),
   gd25t512me |->
     On({"1_4_4", "4_4_4"}, Run(14, 30, 166) \o <<<<12, 12, 152>>, <<10, 10, 133>>, <<8, 8, 104>>, <<6,
         6, 84>>, <<4, 4, 40>>>>),
   gd25le80e |-> "4_4_4" :> <<<<2, 8, 133>>, <<3, 6, 108>>, <<1, 4, 80>>, <<0, 4, 80>>>>,
   gd25lf80e |-> "4_4_4" :> <<<<3, 10, 166>>, <<2, 8, 133>>, <<1, 6, 108>>, <<0, 4, 80>>>>,
   gd25lb32d |-> "4_4_4" :> <<<<3, 8, 120>>, <<2, 6, 108>>, <<1, 4, 80>>, <<0, 4, 80>>>>,
   gd25lb128e |-> "4_4_4" :> <<<<2, 8, 133>>, <<1, 6, 108>>, <<0, 4, 80>>>>,
   gd25lq128e |-> "4_4_4" :> <<<<2, 8, 120>>, <<3, 8, 120>>, <<1, 6, 108>>, <<0, 4, 80>>>>]

\* vendor-issi.c
issi_dc_tables_1 ==
  [is25lp032 |->
     ("1_2_2" :> <<<<2, 8, 133>>, <<0, 4, 104>>, <<1, 4, 104>>, <<3, 4, 104>>>>)
       @@ On({"1_4_4", "4_4_4"}, <<<<2, 8, 133>>, <<3, 10, 133>>, <<0, 6, 104>>, <<1, 4, 84>>>>),
   is25wp020 |->
     ("1_1_1" :> <<<<3, 3, 133>>, <<4, 4, 133>>, <<5, 5, 133>>, <<6, 6, 133>>, <<7, 7, 133>>, <<8, 8,
           133>>, <<9, 9, 133>>, <<10, 10, 133>>, <<11, 11, 133>>, <<12, 12, 133>>, <<13, 13, 133>>,
           <<14, 14, 133>>, <<15, 15, 133>>, <<2, 2, 104>>, <<1, 1, 84>>>>)
       @@ ("1_1_2" :> <<<<5, 5, 133>>, <<6, 6, 133>>, <<7, 7, 133>>, <<8, 8, 133>>, <<9, 9, 133>>, <<10, 10,
           133>>, <<11, 11, 133>>, <<12, 12, 133>>, <<13, 13, 133>>, <<14, 14, 133>>, <<15, 15, 133>>,
           <<4, 4, 128>>, <<3, 3, 115>>, <<2, 2, 104>>, <<1, 1, 84>>>>)
       @@ ("1_2_2" :> <<<<6, 6, 133>>, <<7, 7, 133>>, <<8, 8, 133>>, <<9, 9, 133>>, <<10, 10, 133>>, <<11, 11,
           133>>, <<12, 12, 133>>, <<13, 13, 133>>, <<14, 14, 133>>, <<15, 15, 133>>, <<5, 5, 128>>,
           <<4, 4, 115>>, <<3, 3, 104>>, <<2, 2, 84>>, <<1, 1, 60>>>>)
       @@ ("1_1_4" :> <<<<7, 7, 133>>, <<8, 8, 133>>, <<9, 9, 133>>, <<10, 10, 133>>, <<11, 11, 133>>, <<12,
           12, 133>>, <<13, 13, 133>>, <<14, 14, 133>>, <<15, 15, 133>>, <<6, 6, 128>>, <<5, 5, 115>>,
           <<4, 4, 104>>, <<3, 3, 90>>, <<2, 2, 80>>, <<1, 1, 66>>>>)
       @@ On({"1_4_4", "4_4_4"}, <<<<9, 9, 133>>, <<10, 10, 133>>, <<11, 11, 133>>, <<12, 12, 133>>, <<13, 13,
           133>>, <<14, 14, 133>>, <<15, 15, 133>>, <<8, 8, 128>>, <<7, 7, 115>>, <<6, 6, 104>>, <<5,
           5, 84>>, <<4, 4, 70>>, <<3, 3, 60>>, <<2, 2, 50>>, <<1, 1, 33>>>>),
   is25wp020d |->
     ("1_1_1" :> <<<<3, 3, 133>>, <<4, 4, 133>>, <<5, 5, 133>>, <<6, 6, 133>>, <<7, 7, 133>>, <<8, 8,
           133>>, <<9, 9, 133>>, <<10, 10, 133>>, <<11, 11, 133>>, <<12, 12, 133>>, <<13, 13, 133>>,
           <<14, 14, 133>>, <<15, 15, 133>>, <<2, 2, 104>>, <<1, 1, 84>>>>)
       @@ ("1_1_2" :> <<<<4, 4, 133>>, <<5, 5, 133>>, <<6, 6, 133>>, <<7, 7, 133>>, <<8, 8, 133>>, <<9, 9,
           133>>, <<10, 10, 133>>, <<11, 11, 133>>, <<12, 12, 133>>, <<13, 13, 133>>, <<14, 14, 133>>,
           <<15, 15, 133>>, <<3, 3, 115>>, <<2, 2, 104>>, <<1, 1, 84>>>>)
       @@ ("1_2_2" :> <<<<5, 5, 133>>, <<6, 6, 133>>, <<7, 7, 133>>, <<8, 8, 133>>, <<9, 9, 133>>, <<10, 10,
           133>>, <<11, 11, 133>>, <<12, 12, 133>>, <<13, 13, 133>>, <<14, 14, 133>>, <<15, 15, 133>>,
           <<4, 4, 115>>, <<3, 3, 104>>, <<2, 2, 84>>, <<1, 1, 60>>>>)
       @@ ("1_1_4" :> <<<<6, 6, 133>>, <<7, 7, 133>>, <<8, 8, 133>>, <<9, 9, 133>>, <<10, 10, 133>>, <<11, 11,
           133>>, <<12, 12, 133>>, <<13, 13, 133>>, <<14, 14, 133>>, <<15, 15, 133>>, <<5, 5, 115>>,
           <<4, 4, 104>>, <<3, 3, 90>>, <<2, 2, 80>>, <<1, 1, 66>>>>)
       @@ On({"1_4_4", "4_4_4"}, <<<<8, 8, 133>>, <<9, 9, 133>>, <<10, 10, 133>>, <<11, 11, 133>>, <<12, 12,
           133>>, <<13, 13, 133>>, <<14, 14, 133>>, <<15, 15, 133>>, <<7, 7, 115>>, <<6, 6, 104>>, <<5,
           5, 84>>, <<4, 4, 70>>, <<3, 3, 60>>, <<2, 2, 50>>, <<1, 1, 33>>>>),
   is25lp064d |->
     ("1_1_1" :> <<<<4, 4, 166>>, <<5, 5, 166>>, <<6, 6, 166>>, <<7, 7, 166>>, <<8, 8, 166>>, <<9, 9,
           166>>, <<10, 10, 166>>, <<11, 11, 166>>, <<12, 12, 166>>, <<13, 13, 166>>, <<14, 14, 166>>,
           <<15, 15, 166>>, <<3, 3, 133>>, <<2, 2, 120>>, <<1, 1, 84>>>>)
       @@ ("1_1_2" :> <<<<7, 7, 166>>, <<8, 8, 166>>, <<9, 9, 166>>, <<10, 10, 166>>, <<11, 11, 166>>, <<12,
           12, 166>>, <<13, 13, 166>>, <<14, 14, 166>>, <<15, 15, 166>>, <<6, 6, 150>>, <<5, 5, 140>>,
           <<4, 4, 133>>, <<3, 3, 120>>, <<2, 2, 104>>, <<1, 1, 95>>>>)
       @@ ("1_2_2" :> <<<<9, 9, 166>>, <<10, 10, 166>>, <<11, 11, 166>>, <<12, 12, 166>>, <<13, 13, 166>>,
           <<14, 14, 166>>, <<15, 15, 166>>, <<8, 8, 150>>, <<7, 7, 140>>, <<6, 6, 133>>, <<5, 5,
           120>>, <<4, 4, 104>>, <<3, 3, 95>>, <<2, 2, 80>>, <<1, 1, 55>>>>)
       @@ ("1_1_4" :> <<<<10, 10, 166>>, <<11, 11, 166>>, <<12, 12, 166>>, <<13, 13, 166>>, <<14, 14, 166>>,
           <<15, 15, 166>>, <<9, 9, 160>>, <<8, 8, 150>>, <<7, 7, 140>>, <<6, 6, 133>>, <<5, 5, 120>>,
           <<4, 4, 104>>, <<3, 3, 95>>, <<2, 2, 80>>, <<1, 1, 70>>>>)
       @@ On({"1_4_4", "4_4_4"}, <<<<13, 13, 166>>, <<14, 14, 166>>, <<15, 15, 166>>, <<12, 12, 160>>, <<11,
           11, 150>>, <<10, 10, 140>>, <<9, 9, 133>>, <<8, 8, 120>>, <<7, 7, 104>>, <<6, 6, 90>>, <<5,
           5, 80>>, <<4, 4, 70>>, <<3, 3, 60>>, <<2, 2, 50>>, <<1, 1, 33>>>>)]

issi_dc_tables_2 ==
  [is25wp064d |->
     ("1_1_1" :> <<<<7, 7, 166>>, <<8, 8, 166>>, <<9, 9, 166>>, <<10, 10, 166>>, <<11, 11, 166>>, <<12,
           12, 166>>, <<13, 13, 166>>, <<14, 14, 166>>, <<15, 15, 166>>, <<6, 6, 156>>, <<5, 5, 145>>,
           <<4, 4, 133>>, <<3, 3, 122>>, <<2, 2, 110>>, <<1, 1, 98>>>>)
       @@ ("1_1_2" :> <<<<8, 8, 166>>, <<9, 9, 166>>, <<10, 10, 166>>, <<11, 11, 166>>, <<12, 12, 166>>, <<13,
           13, 166>>, <<14, 14, 166>>, <<15, 15, 166>>, <<7, 7, 156>>, <<6, 6, 145>>, <<5, 5, 133>>,
           <<4, 4, 122>>, <<3, 3, 98>>, <<2, 2, 84>>, <<1, 1, 75>>>>)
       @@ ("1_2_2" :> <<<<10, 10, 166>>, <<11, 11, 166>>, <<12, 12, 166>>, <<13, 13, 166>>, <<14, 14, 166>>,
           <<15, 15, 166>>, <<9, 9, 156>>, <<8, 8, 145>>, <<7, 7, 133>>, <<6, 6, 122>>, <<5, 5, 110>>,
           <<4, 4, 98>>, <<3, 3, 87>>, <<2, 2, 75>>, <<1, 1, 46>>>>)
       @@ ("1_1_4" :> <<<<12, 12, 166>>, <<13, 13, 166>>, <<14, 14, 166>>, <<15, 15, 166>>, <<11, 11, 151>>,
           <<10, 10, 145>>, <<9, 9, 140>>, <<8, 8, 138>>, <<7, 7, 133>>, <<6, 6, 122>>, <<5, 5, 110>>,
           <<4, 4, 98>>, <<3, 3, 87>>, <<2, 2, 75>>, <<1, 1, 63>>>>)
       @@ On({"1_4_4", "4_4_4"}, <<<<14, 14, 166>>, <<15, 15, 166>>, <<13, 13, 162>>, <<12, 12, 151>>, <<11,
           11, 139>>, <<10, 10, 127>>, <<9, 9, 122>>, <<8, 8, 104>>, <<7, 7, 93>>, <<6, 6, 81>>, <<5,
           5, 69>>, <<4, 4, 58>>, <<3, 3, 46>>, <<2, 2, 34>>, <<1, 1, 23>>>>),
   is25lp128f |->
     ("1_1_1" :> <<<<7, 7, 166>>, <<8, 8, 166>>, <<9, 9, 166>>, <<10, 10, 166>>, <<11, 11, 166>>, <<12,
           12, 166>>, <<13, 13, 166>>, <<14, 14, 166>>, <<15, 15, 166>>, <<6, 6, 156>>, <<5, 5, 145>>,
           <<4, 4, 133>>, <<3, 3, 122>>, <<2, 2, 110>>, <<1, 1, 98>>>>)
       @@ ("1_1_2" :> <<<<7, 7, 166>>, <<8, 8, 166>>, <<9, 9, 166>>, <<10, 10, 166>>, <<11, 11, 166>>, <<12,
           12, 166>>, <<13, 13, 166>>, <<14, 14, 166>>, <<15, 15, 166>>, <<6, 6, 150>>, <<5, 5, 140>>,
           <<4, 4, 133>>, <<3, 3, 98>>, <<2, 2, 84>>, <<1, 1, 75>>>>)
       @@ ("1_2_2" :> <<<<9, 9, 166>>, <<10, 10, 166>>, <<11, 11, 166>>, <<12, 12, 166>>, <<13, 13, 166>>,
           <<14, 14, 166>>, <<15, 15, 166>>, <<8, 8, 150>>, <<7, 7, 140>>, <<6, 6, 133>>, <<5, 5,
           120>>, <<4, 4, 104>>, <<3, 3, 95>>, <<2, 2, 80>>, <<1, 1, 55>>>>)
       @@ ("1_1_4" :> <<<<10, 10, 166>>, <<11, 11, 166>>, <<12, 12, 166>>, <<13, 13, 166>>, <<14, 14, 166>>,
           <<15, 15, 166>>, <<9, 9, 156>>, <<8, 8, 145>>, <<7, 7, 133>>, <<6, 6, 122>>, <<5, 5, 110>>,
           <<4, 4, 98>>, <<3, 3, 87>>, <<2, 2, 75>>, <<1, 1, 63>>>>)
       @@ On({"1_4_4", "4_4_4"}, <<<<14, 14, 166>>, <<15, 15, 166>>, <<13, 13, 162>>, <<12, 12, 151>>, <<11,
           11, 139>>, <<10, 10, 127>>, <<9, 9, 122>>, <<8, 8, 104>>, <<7, 7, 93>>, <<6, 6, 81>>, <<5,
           5, 69>>, <<4, 4, 58>>, <<3, 3, 46>>, <<2, 2, 34>>, <<1, 1, 23>>>>),
   is25wp256d |->
     ("1_1_1" :> <<<<4, 4, 133>>, <<5, 5, 133>>, <<6, 6, 133>>, <<7, 7, 133>>, <<8, 8, 133>>, <<9, 9,
           133>>, <<10, 10, 133>>, <<11, 11, 133>>, <<12, 12, 133>>, <<13, 13, 133>>, <<14, 14, 133>>,
           <<15, 15, 133>>, <<3, 3, 122>>, <<2, 2, 110>>, <<1, 1, 98>>>>)
       @@ ("1_1_2" :> <<<<4, 4, 133>>, <<5, 5, 133>>, <<6, 6, 133>>, <<7, 7, 133>>, <<8, 8, 133>>, <<9, 9,
           133>>, <<10, 10, 133>>, <<11, 11, 133>>, <<12, 12, 133>>, <<13, 13, 133>>, <<14, 14, 133>>,
           <<15, 15, 133>>, <<3, 3, 98>>, <<2, 2, 84>>, <<1, 1, 75>>>>)
       @@ ("1_2_2" :> <<<<6, 6, 133>>, <<7, 7, 133>>, <<8, 8, 133>>, <<9, 9, 133>>, <<10, 10, 133>>, <<11, 11,
           133>>, <<12, 12, 133>>, <<13, 13, 133>>, <<14, 14, 133>>, <<15, 15, 133>>, <<5, 5, 122>>,
           <<4, 4, 104>>, <<3, 3, 98>>, <<2, 2, 80>>, <<1, 1, 52>>>>)
       @@ ("1_1_4" :> <<<<7, 7, 133>>, <<8, 8, 133>>, <<9, 9, 133>>, <<10, 10, 133>>, <<11, 11, 133>>, <<12,
           12, 133>>, <<13, 13, 133>>, <<14, 14, 133>>, <<15, 15, 133>>, <<6, 6, 122>>, <<5, 5, 110>>,
           <<4, 4, 98>>, <<3, 3, 87>>, <<2, 2, 75>>, <<1, 1, 63>>>>)
       @@ On({"1_4_4", "4_4_4"}, <<<<11, 11, 133>>, <<12, 12, 133>>, <<13, 13, 133>>, <<14, 14, 133>>, <<15,
           15, 133>>, <<10, 10, 127>>, <<9, 9, 122>>, <<8, 8, 104>>, <<7, 7, 93>>, <<6, 6, 81>>, <<5,
           5, 69>>, <<4, 4, 58>>, <<3, 3, 46>>, <<2, 2, 34>>, <<1, 1, 23>>>>)]

issi_dc_tables_3 ==
  [is25lp512m |->
     ("1_1_1" :> <<<<7, 7, 133>>, <<8, 8, 133>>, <<9, 9, 133>>, <<10, 10, 133>>, <<11, 11, 133>>, <<12,
           12, 133>>, <<13, 13, 133>>, <<14, 14, 133>>, <<15, 15, 133>>, <<6, 6, 120>>, <<5, 5, 115>>,
           <<4, 4, 110>>, <<3, 3, 104>>, <<2, 2, 84>>, <<1, 1, 66>>>>)
       @@ ("1_1_2" :> <<<<7, 7, 133>>, <<8, 8, 133>>, <<9, 9, 133>>, <<10, 10, 133>>, <<11, 11, 133>>, <<12,
           12, 133>>, <<13, 13, 133>>, <<14, 14, 133>>, <<15, 15, 133>>, <<6, 6, 125>>, <<5, 5, 117>>,
           <<4, 4, 110>>, <<3, 3, 104>>, <<2, 2, 84>>, <<1, 1, 66>>>>)
       @@ ("1_2_2" :> <<<<9, 9, 133>>, <<10, 10, 133>>, <<11, 11, 133>>, <<12, 12, 133>>, <<13, 13, 133>>,
           <<14, 14, 133>>, <<15, 15, 133>>, <<8, 8, 117>>, <<7, 7, 108>>, <<6, 6, 104>>, <<5, 5, 90>>,
           <<4, 4, 84>>, <<3, 3, 66>>, <<2, 2, 50>>, <<1, 1, 33>>>>)
       @@ ("1_1_4" :> <<<<10, 10, 133>>, <<11, 11, 133>>, <<12, 12, 133>>, <<13, 13, 133>>, <<14, 14, 133>>,
           <<15, 15, 133>>, <<9, 9, 125>>, <<8, 8, 117>>, <<7, 7, 110>>, <<6, 6, 104>>, <<5, 5, 95>>,
           <<4, 4, 84>>, <<3, 3, 75>>, <<2, 2, 66>>, <<1, 1, 50>>>>)
       @@ On({"1_4_4", "4_4_4"}, <<<<14, 14, 133>>, <<15, 15, 133>>, <<13, 13, 125>>, <<12, 12, 120>>, <<11,
           11, 117>>, <<10, 10, 110>>, <<9, 9, 104>>, <<8, 8, 95>>, <<7, 7, 84>>, <<6, 6, 75>>, <<5, 5,
           66>>, <<4, 4, 50>>, <<3, 3, 40>>, <<2, 2, 33>>, <<1, 1, 25>>>>),
   is25wp512m |->
     ("1_1_1" :> <<<<5, 5, 112>>, <<6, 6, 112>>, <<7, 7, 112>>, <<8, 8, 112>>, <<9, 9, 112>>, <<10, 10,
           112>>, <<11, 11, 112>>, <<12, 12, 112>>, <<13, 13, 112>>, <<14, 14, 112>>, <<15, 15, 112>>,
           <<4, 4, 110>>, <<3, 3, 104>>, <<2, 2, 84>>, <<1, 1, 66>>>>)
       @@ ("1_1_2" :> <<<<5, 5, 112>>, <<6, 6, 112>>, <<7, 7, 112>>, <<8, 8, 112>>, <<9, 9, 112>>, <<10, 10,
           112>>, <<11, 11, 112>>, <<12, 12, 112>>, <<13, 13, 112>>, <<14, 14, 112>>, <<15, 15, 112>>,
           <<4, 4, 110>>, <<3, 3, 104>>, <<2, 2, 84>>, <<1, 1, 66>>>>)
       @@ ("1_2_2" :> <<<<8, 8, 112>>, <<9, 9, 112>>, <<10, 10, 112>>, <<11, 11, 112>>, <<12, 12, 112>>, <<13,
           13, 112>>, <<14, 14, 112>>, <<15, 15, 112>>, <<7, 7, 108>>, <<6, 6, 104>>, <<5, 5, 90>>,
           <<4, 4, 84>>, <<3, 3, 66>>, <<2, 2, 50>>, <<1, 1, 33>>>>)
       @@ ("1_1_4" :> <<<<8, 8, 112>>, <<9, 9, 112>>, <<10, 10, 112>>, <<11, 11, 112>>, <<12, 12, 112>>, <<13,
           13, 112>>, <<14, 14, 112>>, <<15, 15, 112>>, <<7, 7, 110>>, <<6, 6, 104>>, <<5, 5, 95>>,
           <<4, 4, 84>>, <<3, 3, 75>>, <<2, 2, 66>>, <<1, 1, 50>>>>)
       @@ On({"1_4_4", "4_4_4"}, <<<<10, 10, 112>>, <<11, 11, 112>>, <<12, 12, 112>>, <<13, 13, 112>>, <<14,
           14, 112>>, <<15, 15, 112>>, <<9, 9, 104>>, <<8, 8, 93>>, <<7, 7, 84>>, <<6, 6, 75>>, <<5, 5,
           66>>, <<4, 4, 50>>, <<3, 3, 40>>, <<2, 2, 33>>, <<1, 1, 25>>>>),
   is25wp01g |->
     ("1_1_1" :> <<<<3, 3, 104>>, <<4, 4, 104>>, <<5, 5, 104>>, <<6, 6, 104>>, <<7, 7, 104>>, <<8, 8,
           104>>, <<9, 9, 104>>, <<10, 10, 104>>, <<11, 11, 104>>, <<12, 12, 104>>, <<13, 13, 104>>,
           <<14, 14, 104>>, <<15, 15, 104>>, <<2, 2, 84>>, <<1, 1, 66>>>>)
       @@ ("1_1_2" :> <<<<3, 3, 104>>, <<4, 4, 104>>, <<5, 5, 104>>, <<6, 6, 104>>, <<7, 7, 104>>, <<8, 8,
           104>>, <<9, 9, 104>>, <<10, 10, 104>>, <<11, 11, 104>>, <<12, 12, 104>>, <<13, 13, 104>>,
           <<14, 14, 104>>, <<15, 15, 104>>, <<2, 2, 84>>, <<1, 1, 66>>>>)
       @@ ("1_2_2" :> <<<<6, 6, 104>>, <<7, 7, 104>>, <<8, 8, 104>>, <<9, 9, 104>>, <<10, 10, 104>>, <<11, 11,
           104>>, <<12, 12, 104>>, <<13, 13, 104>>, <<14, 14, 104>>, <<15, 15, 104>>, <<5, 5, 90>>,
           <<4, 4, 84>>, <<3, 3, 66>>, <<2, 2, 50>>, <<1, 1, 33>>>>)
       @@ ("1_1_4" :> <<<<6, 6, 104>>, <<7, 7, 104>>, <<8, 8, 104>>, <<9, 9, 104>>, <<10, 10, 104>>, <<11, 11,
           104>>, <<12, 12, 104>>, <<13, 13, 104>>, <<14, 14, 104>>, <<15, 15, 104>>, <<5, 5, 95>>,
           <<4, 4, 84>>, <<3, 3, 75>>, <<2, 2, 66>>, <<1, 1, 50>>>>)
       @@ On({"1_4_4", "4_4_4"}, <<<<9, 9, 104>>, <<10, 10, 104>>, <<11, 11, 104>>, <<12, 12, 104>>, <<13, 13,
           104>>, <<14, 14, 104>>, <<15, 15, 104>>, <<8, 8, 93>>, <<7, 7, 84>>, <<6, 6, 75>>, <<5, 5,
           66>>, <<4, 4, 50>>, <<3, 3, 40>>, <<2, 2, 33>>, <<1, 1, 25>>>>),
   is25_dfl |->
     On({"1_1_1", "1_1_2", "1_1_4"}, <<<<0, 8, 60>>>>)
       @@ ("1_2_2" :> <<<<0, 4, 60>>>>)
       @@ On({"1_4_4", "4_4_4"}, <<<<0, 6, 60>>>>)]

\* vendor-macronix.c
macronix_dc_tables_1 ==
  [mxic_cr1_bit6_all_104mhz |->
     ("1_2_2" :> <<<<0, 4, 104>>, <<1, 8, 104>>>>)
       @@ ("1_4_4" :> <<<<0, 6, 104>>, <<1, 10, 104>>>>),
   mxic_cr1_bit6_all_80mhz |->
     ("1_2_2" :> <<<<0, 4, 80>>, <<1, 8, 80>>>>)
       @@ ("1_4_4" :> <<<<0, 6, 80>>, <<1, 10, 80>>>>),
   mxic_cr1_bit6_104_133mhz |->
     ("1_2_2" :> <<<<1, 8, 133>>, <<0, 4, 104>>>>)
       @@ ("1_4_4" :> <<<<1, 10, 133>>, <<0, 6, 104>>>>),
   mxic_cr1_bit6_80_120mhz |->
     ("1_2_2" :> <<<<1, 8, 120>>, <<0, 4, 80>>>>)
       @@ On({"1_4_4", "4_4_4"}, <<<<1, 10, 120>>, <<0, 6, 80>>>>),
   mxic_cr1_bit6_80_133mhz |->
     ("1_2_2" :> <<<<1, 8, 133>>, <<0, 4, 80>>>>)
       @@ ("1_4_4" :> <<<<1, 10, 133>>, <<0, 6, 80>>>>),
   mxic_cr1_bit7_86_104mhz |-> On({"1_4_4", "4_4_4"}, <<<<1, 8, 104>>, <<0, 6, 86>>>>),
   mxic_cr1_bit7_104_133mhz |-> On({"1_4_4", "4_4_4"}, <<<<0, 6, 104>>>>),
   mxic_cr1_dc7_6_dfl_table |->
     On({"1_1_1", "1_1_2", "1_1_4"}, <<<<0, 8, 60>>>>)
       @@ ("1_2_2" :> <<<<0, 4, 60>>>>)
       @@ On({"1_4_4", "4_4_4"}, <<<<0, 6, 60>>>>),
   mxic_cr1_bit7_6_104_133mhz |->
     ("1_2_2" :> <<<<1, 8, 133>>, <<0, 4, 104>>>>)
       @@ On({"1_4_4", "4_4_4"}, <<<<1, 10, 133>>, <<0, 6, 104>>>>)]

macronix_dc_tables_2 ==
  [mx25u1632f |->
     On({"1_1_1", "1_1_2"}, <<<<3, 10, 133>>, <<2, 8, 104>>, <<0, 8, 104>>, <<1, 6, 104>>>>)
       @@ ("1_2_2" :> <<<<3, 10, 133>>, <<2, 8, 104>>, <<1, 6, 104>>, <<0, 4, 84>>>>)
       @@ ("1_1_4" :> <<<<3, 10, 133>>, <<2, 8, 104>>, <<0, 8, 104>>, <<1, 6, 84>>>>)
       @@ On({"1_4_4", "4_4_4"}, <<<<3, 10, 133>>, <<2, 8, 104>>, <<0, 6, 84>>, <<1, 4, 66>>>>),
   mx25l12833f |->
     On({"1_1_1", "1_1_2"}, <<<<3, 10, 133>>, <<2, 8, 104>>, <<0, 8, 104>>, <<1, 6, 104>>>>)
       @@ ("1_2_2" :> <<<<3, 10, 133>>, <<2, 8, 104>>, <<1, 6, 104>>, <<0, 4, 84>>>>)
       @@ ("1_1_4" :> <<<<3, 10, 133>>, <<2, 8, 104>>, <<0, 8, 104>>, <<1, 6, 84>>>>)
       @@ ("1_4_4" :> <<<<3, 10, 120>>, <<2, 8, 104>>, <<0, 6, 84>>, <<1, 4, 66>>>>),
   mx25l12835f |->
     On({"1_1_1", "1_1_2"}, <<<<3, 10, 133>>, <<2, 8, 104>>, <<0, 8, 104>>, <<1, 6, 104>>>>)
       @@ ("1_2_2" :> <<<<3, 10, 133>>, <<2, 8, 104>>, <<1, 6, 104>>, <<0, 4, 84>>>>)
       @@ ("1_1_4" :> <<<<3, 10, 133>>, <<2, 8, 104>>, <<0, 8, 104>>, <<1, 6, 84>>>>)
       @@ On({"1_4_4", "4_4_4"}, <<<<3, 10, 133>>, <<2, 8, 104>>, <<0, 6, 84>>, <<1, 4, 70>>>>),
   mx25l12839f |->
     ("1_1_1" :> <<<<3, 10, 133>>, <<2, 8, 104>>, <<0, 8, 104>>, <<1, 6, 104>>>>)
       @@ ("1_1_4" :> <<<<3, 10, 133>>, <<2, 8, 104>>, <<0, 8, 104>>, <<1, 6, 84>>>>)
       @@ On({"1_4_4", "4_4_4"}, <<<<3, 10, 133>>, <<2, 8, 104>>, <<0, 6, 84>>, <<1, 4, 70>>>>),
   mx25l12845g |->
     ("1_2_2" :> <<<<3, 8, 120>>, <<1, 8, 120>>, <<2, 4, 80>>, <<0, 4, 80>>>>)
       @@ On({"1_4_4", "4_4_4"}, <<<<3, 10, 120>>, <<2, 8, 84>>, <<0, 6, 80>>, <<1, 4, 54>>>>),
   mx25l12843g |->
     ("1_2_2" :> <<<<3, 8, 133>>, <<1, 8, 133>>, <<2, 4, 84>>, <<0, 4, 84>>>>)
       @@ On({"1_4_4", "4_4_4"}, <<<<3, 10, 133>>, <<2, 8, 104>>, <<0, 6, 84>>, <<1, 4, 66>>>>),
   mx25l25633f |->
     On({"1_1_1", "1_1_2"}, <<<<3, 10, 133>>, <<2, 8, 104>>, <<0, 8, 104>>, <<1, 6, 104>>>>)
       @@ ("1_2_2" :> <<<<3, 10, 133>>, <<2, 8, 104>>, <<1, 6, 104>>, <<0, 4, 84>>>>)
       @@ ("1_1_4" :> <<<<3, 10, 133>>, <<2, 8, 104>>, <<0, 8, 104>>, <<1, 6, 84>>>>)
       @@ ("1_4_4" :> <<<<3, 10, 120>>, <<2, 8, 95>>, <<0, 6, 80>>, <<1, 4, 60>>>>)]

macronix_dc_tables_3 ==
  [mx25u25635f |->
     On({"1_1_1", "1_1_2"}, <<<<2, 8, 108>>, <<0, 8, 108>>, <<1, 6, 108>>>>)
       @@ ("1_2_2" :> <<<<2, 8, 108>>, <<1, 6, 108>>, <<0, 4, 84>>>>)
       @@ ("1_1_4" :> <<<<2, 8, 108>>, <<0, 8, 108>>, <<1, 6, 84>>>>)
       @@ On({"1_4_4", "4_4_4"}, <<<<2, 8, 108>>, <<0, 6, 84>>, <<1, 4, 70>>>>),
   mx25l25643g |->
     ("1_2_2" :> <<<<3, 8, 120>>, <<1, 8, 120>>, <<2, 4, 84>>, <<0, 4, 84>>>>)
       @@ On({"1_4_4", "4_4_4"}, <<<<3, 10, 120>>, <<2, 8, 104>>, <<0, 6, 84>>, <<1, 4, 66>>>>),
   mx25u25645g |->
     On({"1_1_1", "1_1_2"}, <<<<3, 10, 166>>, <<2, 8, 133>>, <<0, 8, 133>>, <<1, 6, 133>>>>)
       @@ ("1_2_2" :> <<<<3, 10, 166>>, <<2, 8, 133>>, <<1, 6, 104>>, <<0, 4, 84>>>>)
       @@ ("1_1_4" :> <<<<3, 10, 166>>, <<2, 8, 133>>, <<0, 8, 133>>, <<1, 6, 104>>>>)
       @@ On({"1_4_4", "4_4_4"}, <<<<3, 10, 133>>, <<2, 8, 104>>, <<0, 6, 84>>, <<1, 4, 70>>>>),
   mx25u25645g54 |->
     On({"1_1_1", "1_1_2"}, <<<<0, 10, 166>>, <<1, 8, 133>>, <<3, 8, 133>>, <<2, 6, 133>>>>)
       @@ ("1_2_2" :> <<<<0, 10, 166>>, <<1, 8, 133>>, <<2, 6, 104>>, <<3, 4, 84>>>>)
       @@ ("1_1_4" :> <<<<0, 10, 166>>, <<1, 8, 133>>, <<3, 8, 133>>, <<2, 6, 104>>>>)
       @@ On({"1_4_4", "4_4_4"}, <<<<0, 10, 133>>, <<1, 8, 104>>, <<3, 6, 84>>, <<2, 4, 70>>>>),
   mx25l51245j |->
     ("1_2_2" :> <<<<3, 8, 104>>, <<2, 4, 80>>, <<1, 8, 104>>, <<0, 4, 80>>>>)
       @@ On({"1_4_4", "4_4_4"}, <<<<3, 10, 104>>, <<2, 8, 84>>, <<0, 6, 70>>, <<1, 4, 54>>>>),
   mx25l51237g |->
     On({"1_1_1", "1_1_2", "1_1_4"}, <<<<3, 10, 104>>, <<2, 8, 104>>, <<0, 8, 104>>, <<1, 6, 84>>>>)
       @@ ("1_2_2" :> <<<<3, 10, 104>>, <<2, 8, 104>>, <<1, 6, 84>>, <<0, 4, 66>>>>)
       @@ On({"1_4_4", "4_4_4"}, <<<<3, 10, 104>>, <<2, 8, 104>>, <<0, 6, 84>>, <<1, 4, 66>>>>),
   mxix_octal |-> "1_1_1" :> <<<<0, 8, 133>>>>]

\* vendor-micron.c
mt25ql128_dc_cfgs ==
  [single |-> <<<<4, 4, 133>>, <<5, 5, 133>>, <<6, 6, 133>>, <<7, 7, 133>>, <<8, 8, 133>>, <<9, 9, 133>>, <<10,
     10, 133>>, <<11, 11, 133>>, <<12, 12, 133>>, <<13, 13, 133>>, <<14, 14, 133>>, <<3, 3, 129>>,
     <<2, 2, 112>>, <<1, 1, 94>>>>,
   dual_output |-> <<<<6, 6, 133>>, <<7, 7, 133>>, <<8, 8, 133>>, <<9, 9, 133>>, <<10, 10, 133>>, <<11, 11, 133>>,
     <<12, 12, 133>>, <<13, 13, 133>>, <<14, 14, 133>>, <<5, 5, 125>>, <<4, 4, 115>>, <<3, 3, 106>>,
     <<2, 2, 97>>, <<1, 1, 79>>>>,
   dual |-> <<<<8, 8, 133>>, <<9, 9, 133>>, <<10, 10, 133>>, <<11, 11, 133>>, <<12, 12, 133>>, <<13, 13, 133>>,
     <<14, 14, 133>>, <<7, 7, 125>>, <<6, 6, 115>>, <<5, 5, 106>>, <<4, 4, 97>>, <<3, 3, 86>>, <<2,
     2, 77>>, <<1, 1, 60>>>>]
mt25qu128_dc_cfgs ==
  [single |-> <<<<6, 6, 166>>, <<7, 7, 166>>, <<8, 8, 166>>, <<9, 9, 166>>, <<10, 10, 166>>, <<11, 11, 166>>,
     <<12, 12, 166>>, <<13, 13, 166>>, <<14, 14, 166>>, <<5, 5, 162>>, <<4, 4, 146>>, <<3, 3, 129>>,
     <<2, 2, 112>>, <<1, 1, 94>>>>,
   dual_output |-> <<<<10, 10, 166>>, <<11, 11, 166>>, <<12, 12, 166>>, <<13, 13, 166>>, <<14, 14, 166>>, <<9, 9,
     162>>, <<8, 8, 152>>, <<7, 7, 143>>, <<6, 6, 134>>, <<5, 5, 125>>, <<4, 4, 115>>, <<3, 3, 106>>,
     <<2, 2, 97>>, <<1, 1, 79>>>>,
   dual |-> <<<<12, 12, 166>>, <<13, 13, 166>>, <<14, 14, 166>>, <<11, 11, 162>>, <<10, 10, 152>>, <<9, 9,
     143>>, <<8, 8, 134>>, <<7, 7, 125>>, <<6, 6, 115>>, <<5, 5, 106>>, <<4, 4, 97>>, <<3, 3, 86>>,
     <<2, 2, 77>>, <<1, 1, 60>>>>]
micron_dc_tables_1 ==
  [n25q016 |->
     ("1_1_1" :> <<<<3, 3, 108>>, <<4, 4, 108>>, <<5, 5, 108>>, <<6, 6, 108>>, <<7, 7, 108>>, <<8, 8,
           108>>, <<9, 9, 108>>, <<10, 10, 108>>, <<2, 2, 100>>, <<1, 1, 90>>>>)
       @@ ("1_1_2" :> <<<<5, 5, 108>>, <<6, 6, 108>>, <<7, 7, 108>>, <<8, 8, 108>>, <<9, 9, 108>>, <<10, 10,
           108>>, <<4, 4, 105>>, <<3, 3, 100>>, <<2, 2, 90>>, <<1, 1, 80>>>>)
       @@ On({"1_2_2", "2_2_2"}, <<<<7, 7, 108>>, <<8, 8, 108>>, <<9, 9, 108>>, <<10, 10, 108>>, <<6, 6,
           105>>, <<5, 5, 100>>, <<4, 4, 90>>, <<3, 3, 80>>, <<2, 2, 70>>, <<1, 1, 60>>>>)
       @@ ("1_1_4" :> <<<<7, 7, 108>>, <<8, 8, 108>>, <<9, 9, 108>>, <<10, 10, 108>>, <<6, 6, 105>>, <<5, 5,
           100>>, <<4, 4, 90>>, <<3, 3, 75>>, <<2, 2, 60>>, <<1, 1, 43>>>>)
       @@ On({"1_4_4", "4_4_4"}, <<<<10, 10, 108>>, <<9, 9, 105>>, <<8, 8, 95>>, <<7, 7, 86>>, <<6, 6, 80>>,
           <<5, 5, 70>>, <<4, 4, 60>>, <<3, 3, 50>>, <<2, 2, 40>>, <<1, 1, 30>>>>),
   n25q064_3v |->
     ("1_1_1" :> <<<<4, 4, 108>>, <<5, 5, 108>>, <<6, 6, 108>>, <<7, 7, 108>>, <<8, 8, 108>>, <<9, 9,
           108>>, <<10, 10, 108>>, <<3, 3, 105>>, <<2, 2, 95>>, <<1, 1, 54>>>>)
       @@ ("1_1_2" :> <<<<5, 5, 108>>, <<6, 6, 108>>, <<7, 7, 108>>, <<8, 8, 108>>, <<9, 9, 108>>, <<10, 10,
           108>>, <<4, 4, 105>>, <<3, 3, 95>>, <<2, 2, 85>>, <<1, 1, 50>>>>)
       @@ On({"1_2_2", "2_2_2"}, <<<<7, 7, 108>>, <<8, 8, 108>>, <<9, 9, 108>>, <<10, 10, 108>>, <<6, 6,
           105>>, <<5, 5, 94>>, <<4, 4, 88>>, <<3, 3, 75>>, <<2, 2, 59>>, <<1, 1, 39>>>>)
       @@ ("1_1_4" :> <<<<7, 7, 108>>, <<8, 8, 108>>, <<9, 9, 108>>, <<10, 10, 108>>, <<6, 6, 105>>, <<5, 5,
           94>>, <<4, 4, 83>>, <<3, 3, 70>>, <<2, 2, 56>>, <<1, 1, 43>>>>)
       @@ On({"1_4_4", "4_4_4"}, <<<<10, 10, 108>>, <<9, 9, 105>>, <<8, 8, 95>>, <<7, 7, 86>>, <<6, 6, 78>>,
           <<5, 5, 69>>, <<4, 4, 59>>, <<3, 3, 49>>, <<2, 2, 39>>, <<1, 1, 20>>>>),
   mt25ql128 |->
     ("1_1_1" :> mt25ql128_dc_cfgs.single)
       @@ ("1_1_2" :> mt25ql128_dc_cfgs.dual_output)
       @@ On({"1_2_2", "2_2_2"}, mt25ql128_dc_cfgs.dual)
       @@ ("1_1_4" :> <<<<8, 8, 130>>, <<9, 9, 130>>, <<10, 10, 130>>, <<11, 11, 130>>, <<12, 12, 130>>, <<13,
           13, 130>>, <<14, 14, 130>>, <<7, 7, 125>>, <<6, 6, 115>>, <<5, 5, 106>>, <<4, 4, 97>>, <<3,
           3, 78>>, <<2, 2, 61>>, <<1, 1, 44>>>>)
       @@ On({"1_4_4", "4_4_4"}, <<<<11, 11, 130>>, <<12, 12, 130>>, <<13, 13, 130>>, <<14, 14, 130>>, <<10,
           10, 125>>, <<9, 9, 115>>, <<8, 8, 106>>, <<7, 7, 97>>, <<6, 6, 86>>, <<5, 5, 78>>, <<4, 4,
           69>>, <<3, 3, 58>>, <<2, 2, 48>>, <<1, 1, 39>>>>),
   mt25qu128 |->
     ("1_1_1" :> mt25qu128_dc_cfgs.single)
       @@ ("1_1_2" :> mt25qu128_dc_cfgs.dual_output)
       @@ On({"1_2_2", "2_2_2"}, mt25qu128_dc_cfgs.dual)
       @@ ("1_1_4" :> <<<<10, 10, 145>>, <<11, 11, 145>>, <<12, 12, 145>>, <<13, 13, 145>>, <<14, 14, 145>>,
           <<9, 9, 143>>, <<8, 8, 134>>, <<7, 7, 125>>, <<6, 6, 115>>, <<5, 5, 106>>, <<4, 4, 97>>,
           <<3, 3, 78>>, <<2, 2, 61>>, <<1, 1, 44>>>>)
       @@ On({"1_4_4", "4_4_4"}, <<<<14, 14, 145>>, <<13, 13, 145>>, <<12, 12, 143>>, <<11, 11, 134>>, <<10,
           10, 125>>, <<9, 9, 115>>, <<8, 8, 106>>, <<7, 7, 97>>, <<6, 6, 86>>, <<5, 5, 78>>, <<4, 4,
           69>>, <<3, 3, 58>>, <<2, 2, 48>>, <<1, 1, 39>>>>)]

micron_dc_tables_2 ==
  [mt25ql256 |->
     ("1_1_1" :> mt25ql128_dc_cfgs.single)
       @@ ("1_1_2" :> mt25ql128_dc_cfgs.dual_output)
       @@ On({"1_2_2", "2_2_2"}, mt25ql128_dc_cfgs.dual)
       @@ ("1_1_4" :> <<<<8, 8, 133>>, <<9, 9, 133>>, <<10, 10, 133>>, <<11, 11, 133>>, <<12, 12, 133>>, <<13,
           13, 133>>, <<14, 14, 133>>, <<7, 7, 125>>, <<6, 6, 115>>, <<5, 5, 106>>, <<4, 4, 97>>, <<3,
           3, 78>>, <<2, 2, 61>>, <<1, 1, 44>>>>)
       @@ On({"1_4_4", "4_4_4"}, <<<<11, 11, 133>>, <<12, 12, 133>>, <<13, 13, 133>>, <<14, 14, 133>>, <<10,
           10, 125>>, <<9, 9, 115>>, <<8, 8, 106>>, <<7, 7, 97>>, <<6, 6, 86>>, <<5, 5, 78>>, <<4, 4,
           69>>, <<3, 3, 58>>, <<2, 2, 48>>, <<1, 1, 39>>>>),
   mt25qu256 |->
     ("1_1_1" :> <<<<6, 6, 166>>, <<7, 7, 166>>, <<8, 8, 166>>, <<9, 9, 166>>, <<10, 10, 166>>, <<11, 11,
           166>>, <<12, 12, 166>>, <<13, 13, 166>>, <<14, 14, 166>>, <<5, 5, 162>>, <<4, 4, 146>>, <<3,
           3, 129>>, <<2, 2, 112>>, <<1, 1, 94>>>>)
       @@ ("1_1_2" :> <<<<10, 10, 166>>, <<11, 11, 166>>, <<12, 12, 166>>, <<13, 13, 166>>, <<14, 14, 166>>,
           <<9, 9, 162>>, <<8, 8, 152>>, <<7, 7, 143>>, <<6, 6, 134>>, <<5, 5, 125>>, <<4, 4, 115>>,
           <<3, 3, 106>>, <<2, 2, 97>>, <<1, 1, 79>>>>)
       @@ On({"1_2_2", "2_2_2"}, <<<<12, 12, 166>>, <<13, 13, 166>>, <<14, 14, 166>>, <<11, 11, 162>>, <<10,
           10, 152>>, <<9, 9, 143>>, <<8, 8, 134>>, <<7, 7, 125>>, <<6, 6, 115>>, <<5, 5, 106>>, <<4,
           4, 97>>, <<3, 3, 86>>, <<2, 2, 77>>, <<1, 1, 60>>>>)
       @@ ("1_1_4" :> <<<<12, 12, 166>>, <<13, 13, 166>>, <<14, 14, 166>>, <<11, 11, 162>>, <<10, 10, 152>>,
           <<9, 9, 143>>, <<8, 8, 134>>, <<7, 7, 125>>, <<6, 6, 115>>, <<5, 5, 106>>, <<4, 4, 97>>,
           <<3, 3, 78>>, <<2, 2, 61>>, <<1, 1, 44>>>>)
       @@ On({"1_4_4", "4_4_4"}, <<<<14, 14, 166>>, <<13, 13, 156>>, <<12, 12, 143>>, <<11, 11, 134>>, <<10,
           10, 125>>, <<9, 9, 115>>, <<8, 8, 106>>, <<7, 7, 97>>, <<6, 6, 86>>, <<5, 5, 78>>, <<4, 4,
           69>>, <<3, 3, 58>>, <<2, 2, 48>>, <<1, 1, 39>>>>),
   mt25ql512 |->
     ("1_1_1" :> mt25ql128_dc_cfgs.single)
       @@ ("1_1_2" :> mt25ql128_dc_cfgs.dual_output)
       @@ On({"1_2_2", "2_2_2"}, mt25ql128_dc_cfgs.dual)
       @@ ("1_1_4" :> <<<<6, 6, 108>>, <<7, 7, 108>>, <<8, 8, 108>>, <<9, 9, 108>>, <<10, 10, 108>>, <<11, 11,
           108>>, <<12, 12, 108>>, <<13, 13, 108>>, <<14, 14, 108>>, <<5, 5, 106>>, <<4, 4, 97>>, <<3,
           3, 78>>, <<2, 2, 61>>, <<1, 1, 44>>>>)
       @@ On({"1_4_4", "4_4_4"}, <<<<9, 9, 108>>, <<10, 10, 108>>, <<11, 11, 108>>, <<12, 12, 108>>, <<13, 13,
           108>>, <<14, 14, 108>>, <<8, 8, 106>>, <<7, 7, 97>>, <<6, 6, 86>>, <<5, 5, 78>>, <<4, 4,
           69>>, <<3, 3, 58>>, <<2, 2, 48>>, <<1, 1, 39>>>>),
   mt25qu512 |->
     ("1_1_1" :> mt25qu128_dc_cfgs.single)
       @@ ("1_1_2" :> mt25qu128_dc_cfgs.dual_output)
       @@ On({"1_2_2", "2_2_2"}, mt25qu128_dc_cfgs.dual)
       @@ ("1_1_4" :> <<<<8, 8, 133>>, <<9, 9, 133>>, <<10, 10, 133>>, <<11, 11, 133>>, <<12, 12, 133>>, <<13,
           13, 133>>, <<14, 14, 133>>, <<7, 7, 125>>, <<6, 6, 115>>, <<5, 5, 106>>, <<4, 4, 97>>, <<3,
           3, 78>>, <<2, 2, 61>>, <<1, 1, 44>>>>)
       @@ On({"1_4_4", "4_4_4"}, <<<<11, 11, 133>>, <<12, 12, 133>>, <<13, 13, 133>>, <<14, 14, 133>>, <<10,
           10, 125>>, <<9, 9, 115>>, <<8, 8, 106>>, <<7, 7, 97>>, <<6, 6, 86>>, <<5, 5, 78>>, <<4, 4,
           69>>, <<3, 3, 58>>, <<2, 2, 48>>, <<1, 1, 39>>>>),
   mt25qu01g |->
     ("1_1_1" :> mt25qu128_dc_cfgs.single)
       @@ ("1_1_2" :> mt25qu128_dc_cfgs.dual_output)
       @@ On({"1_2_2", "2_2_2"}, mt25qu128_dc_cfgs.dual)
       @@ ("1_1_4" :> <<<<10, 10, 150>>, <<11, 11, 150>>, <<12, 12, 150>>, <<13, 13, 150>>, <<14, 14, 150>>,
           <<9, 9, 143>>, <<8, 8, 134>>, <<7, 7, 125>>, <<6, 6, 115>>, <<5, 5, 106>>, <<4, 4, 97>>,
           <<3, 3, 78>>, <<2, 2, 61>>, <<1, 1, 44>>>>)
       @@ On({"1_4_4", "4_4_4"}, <<<<14, 14, 150>>, <<13, 13, 150>>, <<12, 12, 143>>, <<11, 11, 134>>, <<10,
           10, 125>>, <<9, 9, 115>>, <<8, 8, 106>>, <<7, 7, 97>>, <<6, 6, 86>>, <<5, 5, 78>>, <<4, 4,
           69>>, <<3, 3, 58>>, <<2, 2, 48>>, <<1, 1, 39>>>>)]

\* vendor-spansion.c
spansion_dc_tables_1 ==
  [s25fl1xxk |->
     ("1_1_1" :> <<<<4, 4, 108>>, <<5, 5, 108>>, <<6, 6, 108>>, <<7, 7, 108>>, <<8, 8, 108>>, <<9, 9,
           108>>, <<10, 10, 108>>, <<11, 11, 108>>, <<12, 12, 108>>, <<13, 13, 108>>, <<14, 14, 108>>,
           <<15, 15, 108>>, <<3, 3, 105>>, <<2, 2, 95>>, <<1, 1, 50>>>>)
       @@ ("1_1_2" :> <<<<5, 5, 108>>, <<6, 6, 108>>, <<7, 7, 108>>, <<8, 8, 108>>, <<9, 9, 108>>, <<10, 10,
           108>>, <<11, 11, 108>>, <<12, 12, 108>>, <<13, 13, 108>>, <<14, 14, 108>>, <<15, 15, 108>>,
           <<4, 4, 105>>, <<3, 3, 95>>, <<2, 2, 85>>, <<1, 1, 50>>>>)
       @@ ("1_2_2" :> <<<<3, 7, 108>>, <<4, 8, 108>>, <<5, 9, 108>>, <<6, 10, 108>>, <<7, 11, 108>>, <<8, 12,
           108>>, <<9, 13, 108>>, <<10, 14, 108>>, <<11, 15, 108>>, <<12, 16, 108>>, <<13, 17, 108>>,
           <<14, 18, 108>>, <<15, 19, 108>>, <<2, 6, 105>>, <<1, 5, 94>>>>)
       @@ ("1_1_4" :> <<<<7, 7, 108>>, <<8, 8, 108>>, <<9, 9, 108>>, <<10, 10, 108>>, <<11, 11, 108>>, <<12,
           12, 108>>, <<13, 13, 108>>, <<14, 14, 108>>, <<15, 15, 108>>, <<6, 6, 105>>, <<5, 5, 94>>,
           <<4, 4, 83>>, <<3, 3, 70>>, <<2, 2, 56>>, <<1, 1, 43>>>>)
       @@ ("1_4_4" :> <<<<8, 10, 108>>, <<9, 11, 108>>, <<10, 12, 108>>, <<11, 13, 108>>, <<12, 14, 108>>,
           <<13, 15, 108>>, <<14, 16, 108>>, <<15, 17, 108>>, <<7, 9, 105>>, <<6, 8, 95>>, <<5, 7,
           86>>, <<4, 6, 78>>, <<3, 5, 69>>, <<2, 4, 59>>, <<1, 3, 49>>>>),
   s25fl064l |->
     ("1_1_1" :> <<<<6, 6, 108>>, <<7, 7, 108>>, <<8, 8, 108>>, <<9, 9, 108>>, <<10, 10, 108>>, <<11, 11,
           108>>, <<12, 12, 108>>, <<13, 13, 108>>, <<14, 14, 108>>, <<15, 15, 108>>, <<5, 5, 95>>,
           <<4, 4, 85>>, <<3, 3, 75>>, <<2, 2, 65>>, <<1, 1, 50>>>>)
       @@ ("1_1_2" :> <<<<7, 7, 108>>, <<8, 8, 108>>, <<9, 9, 108>>, <<10, 10, 108>>, <<11, 11, 108>>, <<12,
           12, 108>>, <<13, 13, 108>>, <<14, 14, 108>>, <<15, 15, 108>>, <<6, 6, 105>>, <<5, 5, 95>>,
           <<4, 4, 85>>, <<3, 3, 75>>, <<2, 2, 65>>, <<1, 1, 50>>>>)
       @@ ("1_2_2" :> <<<<4, 8, 108>>, <<5, 9, 108>>, <<6, 10, 108>>, <<7, 11, 108>>, <<8, 12, 108>>, <<9, 13,
           108>>, <<10, 14, 108>>, <<11, 15, 108>>, <<12, 16, 108>>, <<13, 17, 108>>, <<14, 18, 108>>,
           <<15, 19, 108>>, <<3, 7, 95>>, <<2, 6, 85>>, <<1, 5, 75>>>>)
       @@ ("1_1_4" :> <<<<8, 8, 108>>, <<9, 9, 108>>, <<10, 10, 108>>, <<11, 11, 108>>, <<12, 12, 108>>, <<13,
           13, 108>>, <<14, 14, 108>>, <<15, 15, 108>>, <<7, 7, 95>>, <<6, 6, 85>>, <<5, 5, 75>>, <<4,
           4, 65>>, <<3, 3, 55>>, <<2, 2, 45>>, <<1, 1, 35>>>>)
       @@ On({"1_4_4", "4_4_4"}, <<<<8, 10, 108>>, <<9, 11, 108>>, <<10, 12, 108>>, <<11, 13, 108>>, <<12, 14,
           108>>, <<13, 15, 108>>, <<14, 16, 108>>, <<15, 17, 108>>, <<7, 9, 95>>, <<6, 8, 85>>, <<5,
           7, 75>>, <<4, 6, 65>>, <<3, 5, 55>>, <<2, 4, 45>>, <<1, 3, 35>>>>),
   s25fl128l |->
     ("1_1_1" :> <<<<9, 9, 133>>, <<10, 10, 133>>, <<11, 11, 133>>, <<12, 12, 133>>, <<13, 13, 133>>,
           <<14, 14, 133>>, <<15, 15, 133>>, <<6, 6, 108>>, <<7, 7, 108>>, <<8, 8, 108>>, <<5, 5, 95>>,
           <<4, 4, 85>>, <<3, 3, 75>>, <<2, 2, 65>>, <<1, 1, 50>>>>)
       @@ ("1_1_2" :> <<<<9, 9, 133>>, <<10, 10, 133>>, <<11, 11, 133>>, <<12, 12, 133>>, <<13, 13, 133>>,
           <<14, 14, 133>>, <<15, 15, 133>>, <<7, 7, 108>>, <<8, 8, 108>>, <<6, 6, 105>>, <<5, 5, 95>>,
           <<4, 4, 85>>, <<3, 3, 75>>, <<2, 2, 65>>, <<1, 1, 50>>>>)
       @@ ("1_2_2" :> <<<<7, 11, 133>>, <<8, 12, 133>>, <<9, 13, 133>>, <<10, 14, 133>>, <<11, 15, 133>>,
           <<12, 16, 133>>, <<13, 17, 133>>, <<14, 18, 133>>, <<15, 19, 133>>, <<4, 8, 108>>, <<5, 9,
           108>>, <<6, 10, 108>>, <<3, 7, 95>>, <<2, 6, 85>>, <<1, 5, 75>>>>)
       @@ ("1_1_4" :> <<<<13, 13, 133>>, <<14, 14, 133>>, <<15, 15, 133>>, <<11, 11, 120>>, <<12, 12, 120>>,
           <<9, 9, 115>>, <<10, 10, 115>>, <<8, 8, 108>>, <<7, 7, 95>>, <<6, 6, 85>>, <<5, 5, 75>>,
           <<4, 4, 65>>, <<3, 3, 55>>, <<2, 2, 45>>, <<1, 1, 35>>>>)
       @@ On({"1_4_4", "4_4_4"}, <<<<13, 15, 133>>, <<14, 16, 133>>, <<15, 17, 133>>, <<11, 13, 120>>, <<12,
           14, 120>>, <<9, 11, 115>>, <<10, 12, 115>>, <<8, 10, 108>>, <<7, 9, 95>>, <<6, 8, 85>>, <<5,
           7, 75>>, <<4, 6, 65>>, <<3, 5, 55>>, <<2, 4, 45>>, <<1, 3, 35>>>>)]

s25fl127s_dc_cfgs ==
  [dual_output |-> <<<<2, 8, 104>>, <<1, 8, 90>>, <<0, 8, 80>>, <<3, 0, 50>>>>,
   dual |-> <<<<2, 6, 104>>, <<1, 5, 90>>, <<0, 8, 80>>, <<3, 4, 50>>>>,
   quad |-> <<<<2, 7, 104>>, <<1, 6, 90>>, <<0, 6, 80>>, <<3, 3, 50>>>>]
spansion_dc_tables_2 ==
  [s25fsxxs |->
     On({"1_1_1", "1_1_2", "1_1_4"}, <<<<7, 7, 133>>, <<8, 8, 133>>, <<9, 9, 133>>, <<10, 10, 133>>,
           <<11, 11, 133>>, <<12, 12, 133>>, <<13, 13, 133>>, <<14, 14, 133>>, <<15, 15, 133>>, <<6, 6,
           129>>, <<5, 5, 116>>, <<4, 4, 104>>, <<3, 3, 92>>, <<2, 2, 80>>, <<1, 1, 66>>>>)
       @@ ("1_2_2" :> <<<<5, 9, 133>>, <<6, 10, 133>>, <<7, 11, 133>>, <<8, 12, 133>>, <<9, 13, 133>>, <<10,
           14, 133>>, <<11, 15, 133>>, <<12, 16, 133>>, <<13, 17, 133>>, <<14, 18, 133>>, <<15, 19,
           133>>, <<4, 8, 129>>, <<3, 7, 116>>, <<2, 6, 104>>, <<1, 5, 92>>, <<0, 4, 80>>>>)
       @@ On({"1_4_4", "4_4_4"}, <<<<8, 10, 133>>, <<9, 11, 133>>, <<10, 12, 133>>, <<11, 13, 133>>, <<12, 14,
           133>>, <<13, 15, 133>>, <<14, 16, 133>>, <<15, 17, 133>>, <<7, 9, 129>>, <<6, 8, 116>>, <<5,
           7, 104>>, <<4, 6, 92>>, <<3, 5, 80>>, <<2, 4, 66>>, <<1, 3, 53>>, <<0, 2, 40>>>>),
   s25fl127s |->
     ("1_1_1" :> <<<<2, 8, 108>>, <<1, 8, 90>>, <<0, 8, 80>>, <<3, 0, 50>>>>)
       @@ On({"1_1_2", "1_1_4"}, s25fl127s_dc_cfgs.dual_output)
       @@ ("1_2_2" :> s25fl127s_dc_cfgs.dual)
       @@ ("1_4_4" :> s25fl127s_dc_cfgs.quad),
   s25flxxs |->
     ("1_1_1" :> <<<<2, 8, 133>>, <<1, 8, 90>>, <<0, 8, 80>>, <<3, 0, 50>>>>)
       @@ On({"1_1_2", "1_1_4"}, s25fl127s_dc_cfgs.dual_output)
       @@ ("1_2_2" :> s25fl127s_dc_cfgs.dual)
       @@ ("1_4_4" :> s25fl127s_dc_cfgs.quad)]

\* vendor-winbond.c
winbond_dc_tables ==
  [w25q40ew |-> "4_4_4" :> <<<<3, 8, 104>>, <<2, 6, 80>>, <<1, 4, 55>>, <<0, 2, 26>>>>,
   w25q16dw |-> "4_4_4" :> <<<<3, 8, 104>>, <<2, 6, 80>>, <<1, 4, 50>>, <<0, 2, 30>>>>,
   w25q16jw_dtr |-> "4_4_4" :> <<<<3, 8, 104>>, <<2, 6, 80>>, <<1, 4, 50>>, <<0, 2, 26>>>>,
   w25q32fv |-> "4_4_4" :> <<<<3, 8, 104>>, <<2, 6, 80>>, <<1, 4, 55>>, <<0, 2, 33>>>>,
   w25q32jv_dtr |-> "4_4_4" :> <<<<3, 8, 104>>, <<2, 6, 80>>, <<1, 4, 50>>, <<0, 2, 33>>>>,
   w25q64fv |-> "4_4_4" :> <<<<3, 8, 104>>, <<2, 6, 80>>, <<1, 4, 60>>, <<0, 2, 40>>>>,
   w25q64jw_dtr |-> "4_4_4" :> <<<<2, 6, 104>>, <<3, 8, 104>>, <<1, 4, 80>>, <<0, 2, 26>>>>,
   w25q128fv |-> "4_4_4" :> <<<<2, 6, 80>>, <<3, 8, 80>>, <<1, 4, 55>>, <<0, 2, 33>>>>,
   w25q512nw_dtr |->
     ("1_4_4" :> <<<<3, 8, 133>>, <<4, 10, 133>>, <<5, 12, 133>>, <<6, 14, 133>>, <<7, 16, 133>>, <<0, 6,
           104>>>>)
       @@ ("4_4_4" :> <<<<3, 8, 133>>, <<4, 10, 133>>, <<5, 12, 133>>, <<6, 14, 133>>, <<7, 16, 133>>, <<2, 6,
           104>>, <<1, 4, 80>>, <<0, 2, 50>>>>),
   w25q02jv_dtr |->
     ("1_4_4" :> <<<<0, 6, 104>>, <<3, 8, 104>>, <<4, 10, 104>>, <<5, 12, 104>>, <<6, 14, 104>>, <<7, 16,
           104>>>>)
       @@ ("4_4_4" :> <<<<3, 8, 104>>, <<4, 10, 104>>, <<5, 12, 104>>, <<6, 14, 104>>, <<7, 16, 104>>, <<2, 6,
           80>>, <<1, 4, 50>>, <<0, 2, 25>>>>)]

\* vendor-xmc.c
xmc_dc_tables ==
  [xm25qu41b |-> "4_4_4" :> <<<<2, 6, 104>>, <<3, 8, 104>>, <<1, 4, 70>>, <<0, 2, 50>>>>,
   xm25qh16b |->
     On({"1_1_1", "1_1_2", "1_1_4"}, <<<<0, 8, 104>>>>)
       @@ ("1_2_2" :> <<<<0, 4, 104>>>>)
       @@ ("1_4_4" :> <<<<0, 6, 104>>>>)
       @@ ("4_4_4" :> <<<<2, 6, 104>>, <<3, 8, 104>>, <<1, 4, 80>>, <<0, 2, 50>>>>),
   xm25qh16c |-> "4_4_4" :> <<<<2, 6, 108>>, <<3, 8, 108>>, <<1, 4, 80>>, <<0, 2, 40>>>>,
   xm25qe32c |->
     ("1_2_2" :> <<<<1, 8, 104>>, <<0, 6, 104>>>>)
       @@ ("1_4_4" :> <<<<1, 10, 104>>, <<0, 8, 104>>>>)
       @@ ("4_4_4" :> <<<<1, 6, 104>>, <<2, 8, 104>>, <<3, 8, 104>>, <<0, 4, 80>>>>),
   xm25lu32c |->
     On({"1_1_1", "1_1_2", "1_1_4"}, <<<<0, 8, 133>>, <<1, 8, 133>>, <<2, 8, 133>>, <<3, 8, 133>>>>)
       @@ ("1_2_2" :> <<<<1, 8, 133>>, <<3, 8, 133>>, <<0, 4, 108>>, <<2, 4, 108>>>>)
       @@ ("1_4_4" :> <<<<2, 8, 133>>, <<3, 10, 133>>, <<0, 6, 108>>, <<1, 4, 54>>>>)
       @@ ("4_4_4" :> <<<<3, 8, 133>>, <<2, 6, 108>>, <<1, 4, 80>>, <<0, 2, 40>>>>)]

\* vendor-xtx.c
xtx_dc_tables ==
  [xt25f32f |->
     ("1_2_2" :> <<<<1, 8, 133>>, <<0, 4, 104>>>>)
       @@ ("1_4_4" :> <<<<1, 10, 133>>, <<0, 6, 104>>>>),
   xt25q08d |-> "4_4_4" :> <<<<2, 6, 108>>, <<3, 8, 108>>, <<0, 4, 80>>>>,
   xt25f32b |-> "4_4_4" :> <<<<3, 8, 72>>, <<2, 6, 48>>>>,
   xt25q64d |-> "4_4_4" :> <<<<2, 6, 108>>, <<3, 8, 108>>, <<0, 4, 70>>>>,
   xt25q128d |-> "4_4_4" :> <<<<3, 8, 76>>, <<2, 6, 57>>, <<0, 4, 38>>>>,
   xt25f256b |-> "4_4_4" :> <<<<2, 6, 80>>, <<3, 8, 80>>, <<0, 4, 64>>>>]

-----------------------------------------------------------------------------
\* SNOR_DC_INFO: a table by its name.
dc_tables ==
  atmel_dc_tables @@ eon_dc_tables @@ gigadevice_dc_tables_1 @@ gigadevice_dc_tables_2
    @@ issi_dc_tables_1 @@ issi_dc_tables_2 @@ issi_dc_tables_3 @@ macronix_dc_tables_1
    @@ macronix_dc_tables_2 @@ macronix_dc_tables_3 @@ micron_dc_tables_1 @@ micron_dc_tables_2
    @@ spansion_dc_tables_1 @@ spansion_dc_tables_2 @@ winbond_dc_tables @@ xmc_dc_tables
    @@ xtx_dc_tables

\* SNOR_DC_CHIP_SETUP_ACC: the values that the field of a register can hold, and
\* whether it keeps its value without power.
Field(bits, nonvolatile) == [values |-> 2^bits, nonvolatile |-> nonvolatile]

atmel_dc_acc ==
  [atmel_sr5_dc6_4 |-> Field(3, FALSE)]
eon_dc_acc ==
  [eon_sr3_dc5_4 |-> Field(2, FALSE), eon_sr3_dc7 |-> Field(1, FALSE)]
gigadevice_dc_acc ==
  [gd_srcr_bit12 |-> Field(1, FALSE), gd_cr_bit7_6 |-> Field(2, TRUE), gd_sr3_bit0 |-> Field(1, FALSE),
   gd_sr3_bit1_0 |-> Field(2, TRUE), gd_vcr1 |-> Field(8, TRUE)]
issi_dc_acc ==
  [issi_rr_dc4_3 |-> Field(2, FALSE), issi_rr_dc6_3 |-> Field(4, FALSE)]
macronix_dc_acc ==
  [mxic_cr1_bit6 |-> Field(1, FALSE), mxic_cr1_bit7 |-> Field(1, FALSE),
   mxic_cr1_bit7_6 |-> Field(2, FALSE), mxic_cr2_300 |-> Field(3, FALSE)]
micron_dc_acc ==
  [micron_vcr |-> Field(4, TRUE)]
spansion_dc_acc ==
  [spansion_sr3_dc3_0 |-> Field(4, FALSE), spansion_cr3_dc3_0 |-> Field(4, FALSE),
   spansion_cr2v_dc3_0 |-> Field(4, TRUE), spansion_cr1_dc7_6 |-> Field(2, TRUE)]
xmc_dc_acc ==
  [xmc_sr3_dc0 |-> Field(1, FALSE), xmc_sr3_dc1_0 |-> Field(2, FALSE),
   xmc_sr3_dc3_0 |-> Field(4, FALSE), xmc_sr3_dc4_3 |-> Field(2, FALSE)]
xtx_dc_acc ==
  [xtx_sr3_dc0 |-> Field(1, FALSE), xtx_sr3_dc1_0 |-> Field(2, FALSE)]

dc_accs ==
  atmel_dc_acc @@ eon_dc_acc @@ gigadevice_dc_acc @@ issi_dc_acc @@ macronix_dc_acc @@ micron_dc_acc
    @@ spansion_dc_acc @@ xmc_dc_acc @@ xtx_dc_acc
=============================================================================
