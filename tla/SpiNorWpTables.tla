--------------------------- MODULE SpiNorWpTables ---------------------------
(***************************************************************************)
(* How the bits of the status register of a SPI-NOR chip protect a region  *)
(* of it against writes (SNOR_WP_BP, wp.h and wp.c).                       *)
(*                                                                         *)
(* A row is the value of the bits and the region: its size as a number of  *)
(* KB (LSHIFT) or a part of the chip (RSHIFT), at the lower or the upper   *)
(* end, or the rest of the chip (cmp), which is the whole chip when full   *)
(* is set and the region is the chip (CMP_FULL).                           *)
(***************************************************************************)
EXTENDS Integers, Sequences, TLC

Row(bits, type, kb, scale, lower, cmp, full) ==
    [bits |-> bits, type |-> type, granularity |-> kb, scale |-> scale,
     lower |-> lower, cmp |-> cmp, full |-> full]

BP_LO(bits, n) == Row(bits, "LSHIFT", 64, n, TRUE, FALSE, FALSE)
BP_UP(bits, n) == Row(bits, "LSHIFT", 64, n, FALSE, FALSE, FALSE)
BP_CMP_LO(bits, n) == Row(bits, "LSHIFT", 64, n, FALSE, TRUE, FALSE)
BP_CMP_UP(bits, n) == Row(bits, "LSHIFT", 64, n, TRUE, TRUE, FALSE)
BP_CMPF_LO(bits, n) == Row(bits, "LSHIFT", 64, n, FALSE, TRUE, TRUE)
BP_CMPF_UP(bits, n) == Row(bits, "LSHIFT", 64, n, TRUE, TRUE, TRUE)

SP_LO(bits, n) == Row(bits, "LSHIFT", 4, n, TRUE, FALSE, FALSE)
SP_UP(bits, n) == Row(bits, "LSHIFT", 4, n, FALSE, FALSE, FALSE)
SP_CMP_LO(bits, n) == Row(bits, "LSHIFT", 4, n, FALSE, TRUE, FALSE)
SP_CMP_UP(bits, n) == Row(bits, "LSHIFT", 4, n, TRUE, TRUE, FALSE)
SP_CMPF_LO(bits, n) == Row(bits, "LSHIFT", 4, n, FALSE, TRUE, TRUE)
SP_CMPF_UP(bits, n) == Row(bits, "LSHIFT", 4, n, TRUE, TRUE, TRUE)

RP_LO(bits, n) == Row(bits, "RSHIFT", 0, n, TRUE, FALSE, FALSE)
RP_UP(bits, n) == Row(bits, "RSHIFT", 0, n, FALSE, FALSE, FALSE)
RP_CMP_LO(bits, n) == Row(bits, "RSHIFT", 0, n, FALSE, TRUE, FALSE)
RP_CMP_UP(bits, n) == Row(bits, "RSHIFT", 0, n, TRUE, TRUE, FALSE)

None(values) == [i \in DOMAIN values |-> Row(values[i], "NONE", 0, 0, FALSE, FALSE, FALSE)]
All(values) == [i \in DOMAIN values |-> Row(values[i], "ALL", 0, 0, FALSE, FALSE, FALSE)]

\* Rows whose block protection bits, the third and up, count up, and whose
\* scale counts up or down with them.
Growing(Kind(_, _), bits, rows, scale) ==
    [i \in 1..rows |-> Kind(bits + 4 * (i - 1), scale + i - 1)]
Shrinking(Kind(_, _), bits, rows, scale) ==
    [i \in 1..rows |-> Kind(bits + 4 * (i - 1), scale - i + 1)]

\* struct spi_nor_wp_info: the register, its bits, and the rows in order.
WP(access, mask, rows) == [access |-> access, mask |-> mask, rows |-> rows]

\* vendor-atmel.c
atmel_wp_tables ==
  [at25f512_wpr |-> WP("sr", 12, None(<<0, 4, 8>>) \o All(<<12>>)),
   at25fs010_wpr |->
     WP("sr", 108, None(<<0>>) \o All(<<12, 44, 76, 108>>) \o
       <<RP_UP(32, 5), RP_UP(64, 4), RP_UP(96, 3), RP_UP(4, 2), RP_UP(36, 2), RP_UP(68, 2), RP_UP(100, 2), RP_UP(8, 1), RP_UP(40, 1), RP_UP(72, 1), RP_UP(104, 1)>>),
   at25fs040_wpr |->
     WP("sr", 124, None(<<0>>) \o All(<<124, 16, 48, 80, 112, 20, 52, 84, 116, 24, 56, 88, 120, 28, 60, 92>>)
       \o
       <<RP_UP(32, 6), RP_UP(64, 5), RP_UP(96, 4), RP_UP(4, 3), RP_UP(36, 3), RP_UP(68, 3), RP_UP(100, 3), RP_UP(8, 2), RP_UP(40, 2), RP_UP(72, 2), RP_UP(104, 2), RP_UP(12, 1), RP_UP(44, 1), RP_UP(76, 1), RP_UP(108, 1)>>)]

\* vendor-eon.c
eon_wp_tables_1 ==
  [en25f05_wpr |->
     WP("sr", 28, None(<<0, 16>>) \o All(<<28, 12>>) \o
       <<RP_UP(4, 2), RP_UP(8, 1), SP_CMP_LO(20, 1), SP_CMP_LO(24, 0)>>),
   en25e10_wpr |->
     WP("sr", 28, None(<<0>>) \o All(<<28, 20, 24>>) \o Growing(SP_CMP_LO, 4, 4, 1)),
   en25s10_wpr |->
     WP("sr", 28, None(<<0, 16>>) \o All(<<12, 28>>) \o
       <<SP_CMP_LO(4, 4), SP_CMP_LO(8, 3), SP_CMP_LO(20, 2), SP_CMP_LO(24, 1)>>),
   en25q40_wpr |-> WP("sr", 28, None(<<0>>) \o All(<<28>>) \o Growing(SP_CMP_LO, 4, 6, 1)),
   en25s20a_wpr |->
     WP("sr", 60, None(<<0, 32>>) \o All(<<28, 16, 20, 24, 60, 48, 52, 56>>) \o
       <<BP_UP(4, 0), BP_UP(8, 1), BP_CMP_UP(12, 0), BP_LO(36, 0), BP_LO(40, 1), BP_CMP_LO(44, 0)>>),
   en25f40a_wpr |->
     WP("sr", 60, None(<<0, 32>>) \o All(<<28, 24, 60, 56>>) \o Growing(BP_UP, 4, 3, 0) \o
       <<BP_CMP_UP(16, 1), BP_CMP_UP(20, 0)>> \o Growing(BP_LO, 36, 3, 0) \o
       <<BP_CMP_LO(48, 1), BP_CMP_LO(52, 0)>>),
   en25s40a_wpr |->
     WP("sr", 60, None(<<0, 32>>) \o All(<<28, 20, 24, 60, 52, 56>>) \o Growing(BP_UP, 4, 4, 0) \o
       Growing(BP_CMP_LO, 36, 4, 0)),
   en25q80b_wpr |->
     WP("sr", 60, None(<<0, 32>>) \o All(<<28, 60>>) \o Growing(SP_CMP_LO, 4, 6, 1) \o
       Growing(SP_LO, 36, 6, 1))]

eon_wp_tables_2 ==
  [en25q16_wpr |-> WP("sr", 28, None(<<0>>) \o All(<<28, 24>>) \o Growing(BP_CMP_LO, 4, 5, 0)),
   en25q16a_wpr |->
     WP("sr", 60, None(<<0, 32>>) \o All(<<28, 24, 60, 56>>) \o Growing(BP_CMP_LO, 4, 5, 0) \o
       Growing(BP_CMP_UP, 36, 5, 0)),
   en25q32b_wpr |->
     WP("sr", 60, None(<<0, 32>>) \o All(<<28, 60>>) \o Growing(BP_CMP_LO, 4, 6, 0) \o
       Growing(BP_CMP_UP, 36, 6, 0)),
   en25qa32b_wpr_4bp_tbl0 |->
     WP("sr", 60, None(<<0>>) \o All(<<60, 48, 52, 56>>) \o Shrinking(RP_UP, 4, 6, 6) \o
       Growing(RP_CMP_UP, 28, 5, 2)),
   en25qa32b_wpr_4bp_tbl1 |->
     WP("sr", 60, None(<<0>>) \o All(<<60, 48, 52, 56>>) \o Shrinking(RP_LO, 4, 6, 6) \o
       Growing(RP_CMP_LO, 28, 5, 2)),
   en25s64_wpr |->
     WP("sr", 60, None(<<0, 32>>) \o All(<<28, 60>>) \o Shrinking(RP_CMP_LO, 4, 6, 6) \o
       Shrinking(RP_UP, 36, 6, 6)),
   en25qa64a_wpr_4bp_tbl0 |->
     WP("sr", 60, None(<<0>>) \o All(<<60, 56>>) \o Shrinking(RP_UP, 4, 7, 7) \o
       Growing(RP_CMP_UP, 32, 6, 2))]

eon_wp_tables_3 ==
  [en25qa64a_wpr_4bp_tbl1 |->
     WP("sr", 60, None(<<0>>) \o All(<<60, 56>>) \o Shrinking(RP_LO, 4, 7, 7) \o
       Growing(RP_CMP_LO, 32, 6, 2)),
   wpr_3bp_tb_cmp_only_ratio |->
     WP("sr", 60, None(<<0, 32>>) \o All(<<28, 60>>) \o Shrinking(RP_CMP_UP, 4, 6, 6) \o
       Shrinking(RP_CMP_LO, 36, 6, 6)),
   wpr_3bp_tb_sec_cmp_only |->
     WP("sr", 124, None(<<0, 32, 64, 96>>) \o All(<<28, 60, 92, 124>>) \o Growing(BP_CMP_UP, 4, 6, 0) \o
       Growing(BP_CMP_LO, 36, 6, 0) \o Growing(SP_CMP_UP, 68, 4, 0) \o
       <<SP_CMP_UP(84, 3), SP_CMP_UP(88, 3)>> \o Growing(SP_CMP_LO, 100, 4, 0) \o
       <<SP_CMP_LO(116, 3), SP_CMP_LO(120, 3)>>)]

\* vendor-gigadevice.c
gigadevice_wp_tables ==
  [gd25dxc_wpr |-> WP("sr", 28, None(<<0>>) \o All(<<28>>) \o Growing(SP_CMPF_LO, 4, 6, 1)),
   gd25dxe_wpr |->
     WP("sr", 60, None(<<0, 60>>) \o All(<<28, 32>>) \o Growing(SP_CMPF_LO, 4, 6, 1) \o
       Growing(SP_CMPF_UP, 36, 6, 1)),
   gd_wpr_4bp_tb |->
     WP("srcr_comb", 2108, None(<<0, 2048>>) \o All(<<60, 2108>>) \o Growing(BP_UP, 4, 12, 0) \o
       <<BP_UP(56, 12), BP_UP(56, 13)>> \o Growing(BP_LO, 2052, 12, 0) \o
       <<BP_LO(2104, 12), BP_LO(2104, 13)>>)]

\* vendor-issi.c
issi_wp_tables_1 ==
  [is25cd512_wpr_2bp |-> WP("sr", 12, None(<<0, 4, 8>>) \o All(<<12>>)),
   is25xp010ec_wpr_3bp_tb |->
     WP("sr", 60, None(<<0>>) \o All(<<12, 16, 20, 24, 28, 32, 36, 40, 44, 48, 52, 56, 60>>) \o
       <<SP_UP(4, 3), BP_UP(8, 0)>>),
   is25xp020ej_wpr_3bp_tb |->
     WP("sr", 60, None(<<0>>) \o All(<<16, 20, 24, 28, 32, 48, 52, 56, 60>>) \o
       <<BP_UP(4, 0), BP_UP(8, 1), BP_CMP_UP(12, 0), BP_LO(36, 0), BP_LO(40, 1), BP_CMP_LO(44, 0)>>),
   is25xp040ej_wpr_3bp_tb |->
     WP("sr", 60, None(<<0>>) \o All(<<24, 28, 32, 56, 60>>) \o Growing(BP_UP, 4, 3, 0) \o
       <<BP_CMP_UP(16, 1), BP_CMP_UP(20, 0)>> \o Growing(BP_LO, 36, 3, 0) \o
       <<BP_CMP_LO(48, 1), BP_CMP_LO(52, 0)>>),
   is25xp064db_wpr_4bp_tbs0 |->
     WP("sr", 60, None(<<0>>) \o All(<<56, 60>>) \o Growing(BP_UP, 4, 7, 0) \o Shrinking(BP_CMP_UP, 32, 5, 5)
       \o <<BP_CMP_UP(56, 0)>>),
   is25xp064db_wpr_4bp_tbs1 |->
     WP("sr", 60, None(<<0>>) \o All(<<56, 60>>) \o Growing(BP_LO, 4, 7, 0) \o Shrinking(BP_CMP_LO, 32, 5, 5)
       \o <<BP_CMP_LO(56, 0)>>)]

issi_wp_tables_2 ==
  [is25xp128d_wpr_4bp_tbs0 |->
     WP("sr", 60, None(<<0>>) \o All(<<60>>) \o Growing(BP_UP, 4, 8, 0) \o Shrinking(BP_CMP_UP, 36, 4, 6) \o
       <<BP_CMP_UP(56, 2), BP_CMP_UP(56, 1)>>),
   is25xp128d_wpr_4bp_tbs1 |->
     WP("sr", 60, None(<<0>>) \o All(<<60>>) \o Growing(BP_LO, 4, 8, 0) \o Shrinking(BP_CMP_LO, 36, 4, 6) \o
       <<BP_CMP_LO(56, 2), BP_CMP_LO(56, 1)>>),
   is25xp256ej_wpr_4bp_tbs0 |->
     WP("sr", 60, None(<<0>>) \o All(<<60>>) \o Growing(BP_UP, 4, 9, 0) \o Shrinking(BP_CMP_UP, 40, 3, 7) \o
       <<BP_CMP_UP(56, 4), BP_CMP_UP(56, 3)>>),
   is25xp256ej_wpr_4bp_tbs1 |->
     WP("sr", 60, None(<<0>>) \o All(<<60>>) \o Growing(BP_LO, 4, 9, 0) \o Shrinking(BP_CMP_LO, 40, 3, 7) \o
       <<BP_CMP_LO(56, 4), BP_CMP_LO(56, 3)>>),
   is25xp256ek_wpr_4bp_tbs0 |->
     WP("sr", 60, None(<<0>>) \o
       <<BP_UP(4, 0), BP_UP(8, 4), BP_UP(12, 8), BP_UP(16, 12), BP_UP(20, 16), BP_UP(24, 20), BP_UP(28, 24), BP_UP(32, 28), BP_UP(36, 32), BP_UP(40, 36), BP_UP(44, 40), BP_UP(48, 44), BP_UP(56, 48), BP_UP(56, 52), BP_UP(60, 56)>>),
   is25xp256ek_wpr_4bp_tbs1 |->
     WP("sr", 60, None(<<0>>) \o
       <<BP_LO(4, 0), BP_LO(8, 4), BP_LO(12, 8), BP_LO(16, 12), BP_LO(20, 16), BP_LO(24, 20), BP_LO(28, 24), BP_LO(32, 28), BP_LO(36, 32), BP_LO(40, 36), BP_LO(44, 40), BP_LO(48, 44), BP_LO(56, 48), BP_LO(56, 52), BP_LO(60, 56)>>)]

issi_wp_tables_3 ==
  [is25xp512mj_wpr_4bp_tbs0 |->
     WP("sr", 60, None(<<0>>) \o All(<<60>>) \o Growing(BP_UP, 4, 10, 0) \o
       <<BP_CMP_UP(44, 8), BP_CMP_UP(48, 7), BP_CMP_UP(56, 6), BP_CMP_UP(56, 5)>>),
   is25xp512mj_wpr_4bp_tbs1 |->
     WP("sr", 60, None(<<0>>) \o All(<<60>>) \o Growing(BP_LO, 4, 10, 0) \o
       <<BP_CMP_LO(44, 8), BP_CMP_LO(48, 7), BP_CMP_LO(56, 6), BP_CMP_LO(56, 5)>>),
   is25xp01gj_wpr_4bp_tbs0 |->
     WP("sr", 60, None(<<0>>) \o All(<<60>>) \o Growing(BP_UP, 4, 11, 0) \o
       <<BP_CMP_UP(48, 9), BP_CMP_UP(56, 8), BP_CMP_UP(56, 7)>>),
   is25xp01gj_wpr_4bp_tbs1 |->
     WP("sr", 60, None(<<0>>) \o All(<<60>>) \o Growing(BP_LO, 4, 11, 0) \o
       <<BP_CMP_LO(48, 9), BP_CMP_LO(56, 8), BP_CMP_LO(56, 7)>>),
   is25xp02ggj_wpr_4bp_tbs0 |->
     WP("sr", 60, None(<<0>>) \o All(<<60>>) \o Growing(BP_UP, 4, 12, 0) \o
       <<BP_CMP_UP(56, 10), BP_CMP_UP(56, 9)>>),
   is25xp02ggj_wpr_4bp_tbs1 |->
     WP("sr", 60, None(<<0>>) \o All(<<60>>) \o
       <<BP_LO(4, 1), BP_LO(8, 2), BP_LO(12, 4), BP_LO(16, 8), BP_LO(20, 16), BP_LO(24, 32), BP_LO(28, 64), BP_LO(32, 128), BP_LO(36, 256), BP_LO(40, 512), BP_LO(44, 1024), BP_LO(48, 2048), BP_CMP_LO(56, 3072), BP_CMP_LO(56, 3584)>>)]

\* vendor-macronix.c
macronix_wp_tables ==
  [mx25x_wpr_type2_4bp_tb0 |->
     WP("sr", 60, None(<<0>>) \o All(<<60>>) \o Growing(BP_UP, 4, 7, 0) \o Shrinking(BP_CMPF_LO, 32, 7, 6)),
   mx25x_wpr_type2_4bp_tb1 |->
     WP("sr", 60, None(<<0>>) \o All(<<60>>) \o Growing(BP_LO, 4, 6, 0) \o <<BP_LO(28, 4)>> \o
       Shrinking(BP_CMPF_UP, 32, 7, 6)),
   mx25x_wpr_type3_4bp_tb0 |->
     WP("sr", 60, None(<<0>>) \o All(<<60>>) \o Growing(BP_UP, 4, 14, 1))]

\* vendor-micron.c
micron_wp_tables ==
  [micron_wpr_4bp_tb |->
     WP("sr", 124, None(<<0, 32>>) \o All(<<92, 124>>) \o Growing(BP_UP, 4, 7, 0) \o Growing(BP_UP, 64, 5, 7)
       \o <<BP_UP(88, 12), BP_UP(88, 13)>> \o Growing(BP_LO, 36, 7, 0) \o Growing(BP_LO, 96, 5, 7) \o
       <<BP_LO(120, 12), BP_LO(120, 13)>>)]

\* vendor-spansion.c
spansion_wp_tables ==
  [s25fl2xk_wpr_4bp |->
     WP("sr", 60, None(<<0, 32>>) \o All(<<28, 60>>) \o Growing(BP_UP, 4, 6, 0) \o
       Growing(SP_CMP_LO, 36, 6, 1)),
   s25fl216k_wpr_4bp |->
     WP("sr", 60, None(<<0>>) \o All(<<60, 36, 32, 28, 24>>) \o Growing(BP_UP, 4, 5, 0) \o
       Shrinking(BP_CMP_LO, 40, 5, 4)),
   s25fl128p00_wpr_4bp_up |->
     WP("sr", 60, None(<<0>>) \o All(<<60>>) \o Growing(BP_UP, 4, 14, 1))]

\* vendor-xtx.c
xtx_wp_tables ==
  [xtx_wpr_3bp_lo_cmp_sec |->
     WP("sr", 28, None(<<0>>) \o All(<<28>>) \o Growing(SP_CMP_LO, 4, 6, 1)),
   xtx_wpr_4bp_cmp_as_tb |->
     WP("srcr", 16444, None(<<0, 16384>>) \o All(<<60, 16444>>) \o Growing(BP_UP, 4, 12, 0) \o
       <<BP_UP(56, 12), BP_UP(56, 13)>> \o Growing(BP_LO, 16388, 12, 0) \o
       <<BP_LO(16440, 12), BP_LO(16440, 13)>>)]

\* wp.c
wp_tables_2bp_3bp ==
  [wpr_1bp |-> WP("sr", 4, None(<<0>>) \o All(<<4>>)),
   wpr_2bp_all |-> WP("sr", 12, None(<<0>>) \o All(<<12, 4, 8>>)),
   wpr_2bp_up |-> WP("sr", 12, None(<<0>>) \o All(<<12>>) \o <<BP_UP(4, 0), BP_UP(8, 1)>>),
   wpr_2bp_up_ratio |-> WP("sr", 12, None(<<0>>) \o All(<<12>>) \o <<RP_UP(4, 2), RP_UP(8, 1)>>),
   wpr_2bp_lo |-> WP("sr", 12, None(<<0>>) \o All(<<12>>) \o <<BP_LO(4, 0), BP_LO(8, 1)>>),
   wpr_2bp_lo_ratio |-> WP("sr", 12, None(<<0>>) \o All(<<12>>) \o <<RP_LO(4, 2), RP_LO(8, 1)>>),
   wpr_2bp_tb |->
     WP("sr", 44, None(<<0, 32>>) \o All(<<12, 44>>) \o
       <<BP_UP(4, 0), BP_UP(8, 1), BP_LO(36, 0), BP_LO(40, 1)>>),
   wpr_3bp_up |-> WP("sr", 28, None(<<0>>) \o All(<<28>>) \o Growing(BP_UP, 4, 6, 0)),
   wpr_3bp_up_ratio |-> WP("sr", 28, None(<<0>>) \o All(<<28>>) \o Shrinking(RP_UP, 4, 6, 6)),
   wpr_3bp_lo |-> WP("sr", 28, None(<<0>>) \o All(<<28>>) \o Growing(BP_LO, 4, 6, 0)),
   wpr_3bp_lo_ratio |-> WP("sr", 28, None(<<0>>) \o All(<<28>>) \o Shrinking(RP_LO, 4, 6, 6))]

wp_tables_3bp_tb ==
  [wpr_3bp_tb |->
     WP("sr", 60, None(<<0, 32>>) \o All(<<28, 60>>) \o Growing(BP_UP, 4, 6, 0) \o Growing(BP_LO, 36, 6, 0)),
   wpr_3bp_tb_ratio |->
     WP("sr", 60, None(<<0, 32>>) \o All(<<28, 60>>) \o Shrinking(RP_UP, 4, 6, 6) \o
       Shrinking(RP_LO, 36, 6, 6)),
   wpr_3bp_tb_sec |->
     WP("sr", 124, None(<<0, 32, 64, 96>>) \o All(<<28, 60, 92, 124>>) \o Growing(BP_UP, 4, 6, 0) \o
       Growing(BP_LO, 36, 6, 0) \o Growing(SP_UP, 68, 4, 0) \o <<SP_UP(84, 3), SP_UP(88, 3)>> \o
       Growing(SP_LO, 100, 4, 0) \o <<SP_LO(116, 3), SP_LO(120, 3)>>),
   wpr_3bp_tb_sec_ratio |->
     WP("sr", 124, None(<<0, 32, 64, 96>>) \o All(<<28, 60, 92, 124>>) \o Shrinking(RP_UP, 4, 6, 6) \o
       Shrinking(RP_LO, 36, 6, 6) \o Growing(SP_UP, 68, 4, 0) \o <<SP_UP(84, 3), SP_UP(88, 3)>> \o
       Growing(SP_LO, 100, 4, 0) \o <<SP_LO(116, 3), SP_LO(120, 3)>>)]

wp_tables_3bp_tb_cmp ==
  [wpr_3bp_tb_sec_cmp |->
     WP("srcr", 16508, None(<<0, 32, 64, 96, 16412, 16444, 16476, 16508>>) \o
       All(<<28, 124, 92, 60, 16384, 16416, 16448, 16480>>) \o Growing(BP_UP, 4, 6, 0) \o
       Growing(BP_LO, 36, 6, 0) \o Growing(SP_UP, 68, 4, 0) \o <<SP_UP(84, 3), SP_UP(88, 3)>> \o
       Growing(SP_LO, 100, 4, 0) \o <<SP_LO(116, 3), SP_LO(120, 3)>> \o Growing(BP_CMP_LO, 16388, 5, 0) \o
       Growing(BP_CMP_UP, 16420, 5, 0) \o Growing(SP_CMP_LO, 16452, 4, 0) \o
       <<SP_CMP_LO(16468, 3), SP_CMP_LO(16472, 3)>> \o Growing(SP_CMP_UP, 16484, 4, 0) \o
       <<SP_CMP_UP(16500, 3), SP_CMP_UP(16504, 3)>>),
   wpr_3bp_tb_sec_cmp_ratio |->
     WP("srcr", 16508, None(<<0, 32, 64, 96, 16412, 16444, 16476, 16508>>) \o
       All(<<28, 124, 92, 60, 16384, 16416, 16448, 16480>>) \o Shrinking(RP_UP, 4, 6, 6) \o
       Shrinking(RP_LO, 36, 6, 6) \o Growing(SP_UP, 68, 4, 0) \o <<SP_UP(84, 3), SP_UP(88, 3)>> \o
       Growing(SP_LO, 100, 4, 0) \o <<SP_LO(116, 3), SP_LO(120, 3)>> \o Shrinking(RP_CMP_LO, 16388, 5, 6)
       \o Shrinking(RP_CMP_UP, 16420, 5, 6) \o Growing(SP_CMP_LO, 16452, 4, 0) \o
       <<SP_CMP_LO(16468, 3), SP_CMP_LO(16472, 3)>> \o Growing(SP_CMP_UP, 16484, 4, 0) \o
       <<SP_CMP_UP(16500, 3), SP_CMP_UP(16504, 3)>>)]

wp_tables_4bp ==
  [wpr_4bp_up |-> WP("sr", 60, None(<<0>>) \o All(<<60>>) \o Growing(BP_UP, 4, 14, 0)),
   wpr_4bp_lo |-> WP("sr", 60, None(<<0>>) \o All(<<60>>) \o Growing(BP_LO, 4, 14, 0)),
   wpr_4bp_tb |->
     WP("sr", 124, None(<<0, 64>>) \o All(<<60, 124>>) \o Growing(BP_UP, 4, 12, 0) \o
       <<BP_UP(56, 12), BP_UP(56, 13)>> \o Growing(BP_LO, 68, 12, 0) \o <<BP_LO(120, 12), BP_LO(120, 13)>>),
   wpr_4bp_tb_cmp |->
     WP("srcr", 16508, None(<<0, 64, 16444, 16508>>) \o All(<<60, 124, 16384, 16448>>) \o
       Growing(BP_UP, 4, 12, 0) \o <<BP_UP(56, 12), BP_UP(56, 13)>> \o Growing(BP_LO, 68, 12, 0) \o
       <<BP_LO(120, 12), BP_LO(120, 13)>> \o Growing(BP_CMP_LO, 16388, 12, 0) \o
       <<BP_CMP_LO(16440, 12), BP_CMP_LO(16440, 13)>> \o Growing(BP_CMP_UP, 16452, 12, 0) \o
       <<BP_CMP_UP(16504, 12), BP_CMP_UP(16504, 13)>>)]

-----------------------------------------------------------------------------
\* A table by its name.
wp_tables ==
  atmel_wp_tables @@ eon_wp_tables_1 @@ eon_wp_tables_2 @@ eon_wp_tables_3
    @@ gigadevice_wp_tables @@ issi_wp_tables_1 @@ issi_wp_tables_2 @@ issi_wp_tables_3
    @@ macronix_wp_tables @@ micron_wp_tables @@ spansion_wp_tables @@ xtx_wp_tables
    @@ wp_tables_2bp_3bp @@ wp_tables_3bp_tb @@ wp_tables_3bp_tb_cmp @@ wp_tables_4bp
=============================================================================
