-------------------------- MODULE PartsGigaDevice ---------------------------
(***************************************************************************)
(* The chips of GigaDevice that the SPI-NOR driver knows, in the order of  *)
(* the vendors' tables: the first entry that matches an id is the one      *)
(* taken.                                                                  *)
(***************************************************************************)
EXTENDS SpiNorPart

\* Opcodes of their own.
gd_erase_opcodes_4b == {Sector(4, \h21), Sector(32, \h5c), Sector(64, \hdc)}

gigadevice_parts_1 == <<
  Meta("GD25 512Kb", <<\hc8, \h40, \h10>>, 64, S4_32, NV, 80, [r |-> {"1_1_2"}]),
  NoSfdp("GD25Q512", <<\hc8, \h40, \h10>>, 64, S4_32, NV, 80, [qe |-> "SR2_BIT1_WR_SR1", r |-> X2 \cup X4,
      wp |-> "wpr_3bp_tb_sec"]),
  NoSfdp("GD25D05C", <<\hc8, \h40, \h10>>, 64, S4_32_64, NV, 80, [r |-> {"1_1_2"}, wp |-> "gd25dxc_wpr"]),
  Meta("GD25L*05", <<\hc8, \h60, \h10>>, 64, S4_32_64, NV, 40, [r |-> {"1_1_2"}, fix |-> "gd25lx05"]),
  NoSfdp("GD25LD05C", <<\hc8, \h60, \h10>>, 64, S4_32_64, NV, 40, [r |-> {"1_1_2"}, wp |-> "gd25dxc_wpr"]),
  NoSfdp("GD25LE05C", <<\hc8, \h60, \h10>>, 64, S4_32_64, NV50, 90, [alias |-> {"GD25LQ05C"},
      qe |-> "SR2_BIT1_WR_SR1", r |-> X2 \cup X4, p |-> {"1_1_4"}, wp |-> "wpr_3bp_tb_sec_cmp"]),
  NoSfdp("GD25WD05C", <<\hc8, \h64, \h10>>, 64, S4_32_64, NV, 50, [r |-> {"1_1_2"}, quad |-> 40,
      wp |-> "gd25dxc_wpr"]),
  Meta("GD25*10", <<\hc8, \h40, \h11>>, 128, S4_32_64, NV, 80, [r |-> {"1_1_2"}]),
  NoSfdp("GD25Q10", <<\hc8, \h40, \h11>>, 128, S4_32_64, NV, 80, [qe |-> "SR2_BIT1_WR_SR1", r |-> X2 \cup X4,
      wp |-> "wpr_3bp_tb_sec"]),
  NoSfdp("GD25D10C", <<\hc8, \h40, \h11>>, 128, S4_32_64, NV, 80, [r |-> {"1_1_2"}, wp |-> "gd25dxc_wpr"]),
  Meta("GD25L*10C", <<\hc8, \h60, \h11>>, 128, S4_32_64, NV, 40, [r |-> {"1_1_2"}, fix |-> "gd25lx10"]),
  NoSfdp("GD25LD10C", <<\hc8, \h60, \h11>>, 128, S4_32_64, NV, 40, [r |-> {"1_1_2"}, wp |-> "gd25dxc_wpr"]),
  NoSfdp("GD25LE10C", <<\hc8, \h60, \h11>>, 128, S4_32_64, NV50, 90, [alias |-> {"GD25LQ10C"},
      qe |-> "SR2_BIT1_WR_SR1", r |-> X2 \cup X4, p |-> {"1_1_4"}, wp |-> "wpr_3bp_tb_sec_cmp"]),
  NoSfdp("GD25WD10C", <<\hc8, \h64, \h11>>, 128, S4_32_64, NV, 50, [r |-> {"1_1_2"}, quad |-> 40,
      wp |-> "gd25dxc_wpr"]),
  Meta("GD25*20", <<\hc8, \h40, \h12>>, 256, S4_32_64, NV, 80, [r |-> {"1_1_2"}]) >>

gigadevice_parts_2 == <<
  NoSfdp("GD25Q20B", <<\hc8, \h40, \h12>>, 256, S4_32_64, NV, 120, [qe |-> "SR2_BIT1_WR_SR1", r |-> X2 \cup X4,
      wp |-> "wpr_3bp_tb_sec_cmp"]),
  NoSfdp("GD25Q20C", <<\hc8, \h40, \h12>>, 256, S4_32_64, NV50, 120, [qe |-> "SR2_BIT1_WR_SR1", r |-> X2 \cup X4,
      p |-> {"1_1_4"}, wp |-> "wpr_3bp_tb_sec_cmp"]),
  Sfdp("GD25Q20E", <<\hc8, \h40, \h12>>, 256, 104, [wp |-> "wpr_3bp_tb_sec_cmp", dc |-> "gd_1bit_all_104mhz",
      dcacc |-> "gd_srcr_bit12"]),
  NoSfdp("GD25D20C", <<\hc8, \h40, \h12>>, 256, S4_32_64, NV, 104, [r |-> {"1_1_2"}, dual |-> 80,
      wp |-> "gd25dxc_wpr"]),
  NoSfdp("GD25D20E", <<\hc8, \h40, \h12>>, 256, S4_32_64, NV, 104, [r |-> {"1_1_2"}, dual |-> 80,
      wp |-> "gd25dxe_wpr"]),
  NoSfdp("GD25VE20C", <<\hc8, \h42, \h12>>, 256, S4_32_64, NV50, 104, [alias |-> {"GD25VQ20C"},
      qe |-> "SR2_BIT1_WR_SR1", r |-> X2 \cup X4, p |-> {"1_1_4"}, wp |-> "wpr_3bp_tb_sec_cmp"]),
  Meta("GD25L*20", <<\hc8, \h60, \h12>>, 256, S4_32_64, NV, 40, [r |-> {"1_1_2"}]),
  NoSfdp("GD25LD20C", <<\hc8, \h60, \h12>>, 256, S4_32_64, NV, 40, [r |-> {"1_1_2"}, wp |-> "gd25dxc_wpr"]),
  NoSfdp("GD25LD20E", <<\hc8, \h60, \h12>>, 256, S4_32_64, NV, 40, [r |-> {"1_1_2"}, wp |-> "gd25dxe_wpr"]),
  NoSfdp("GD25LE20C", <<\hc8, \h60, \h12>>, 256, S4_32_64, NV50, 90, [alias |-> {"GD25LQ20C"},
      qe |-> "SR2_BIT1_WR_SR1", r |-> X2 \cup X4, p |-> {"1_1_4"}, wp |-> "wpr_3bp_tb_sec_cmp"]),
  Sfdp("GD25LE20E", <<\hc8, \h60, \h12>>, 256, 133, [alias |-> {"GD25LQ20E"}, wp |-> "wpr_3bp_tb_sec_cmp"]),
  Meta("GD25W*20", <<\hc8, \h64, \h12>>, 256, S4_32_64, NV, 40, [r |-> {"1_1_2"}]),
  NoSfdp("GD25WD20C", <<\hc8, \h64, \h12>>, 256, S4_32_64, NV, 50, [r |-> {"1_1_2"}, quad |-> 40,
      wp |-> "gd25dxc_wpr"]) >>

gigadevice_parts_3 == <<
  NoSfdp("GD25WD20E", <<\hc8, \h64, \h12>>, 256, S4_32_64, NV, 50, [r |-> {"1_1_2"}, quad |-> 40,
      wp |-> "gd25dxe_wpr"]),
  Sfdp("GD25WQ20E", <<\hc8, \h65, \h12>>, 256, 60, [wp |-> "wpr_3bp_tb_sec_cmp", dc |-> "gd_1bit_60_50mhz",
      dcacc |-> "gd_srcr_bit12"]),
  Meta("GD25*40", <<\hc8, \h40, \h13>>, 512, S4_32_64, NV, 80, [r |-> {"1_1_2"}]),
  NoSfdp("GD25B40C", <<\hc8, \h40, \h13>>, 512, S4_32_64, NV50, 120, [alias |-> {"GD25Q40C"},
      qe |-> "SR2_BIT1_WR_SR1", r |-> X2 \cup X4, p |-> {"1_1_4"}, wp |-> "wpr_3bp_tb_sec_cmp"]),
  NoSfdp("GD25Q40B", <<\hc8, \h40, \h13>>, 512, S4_32_64, NV, 120, [qe |-> "SR2_BIT1_WR_SR1", r |-> X2 \cup X4,
      wp |-> "wpr_3bp_tb_sec_cmp"]),
  Sfdp("GD25Q40E", <<\hc8, \h40, \h13>>, 512, 104, [wp |-> "wpr_3bp_tb_sec_cmp", dc |-> "gd_1bit_all_104mhz",
      dcacc |-> "gd_srcr_bit12"]),
  NoSfdp("GD25D40C", <<\hc8, \h40, \h13>>, 512, S4_32_64, NV, 104, [r |-> {"1_1_2"}, dual |-> 80,
      wp |-> "gd25dxc_wpr"]),
  NoSfdp("GD25D40E", <<\hc8, \h40, \h13>>, 512, S4_32_64, NV, 104, [r |-> {"1_1_2"}, dual |-> 80,
      wp |-> "gd25dxe_wpr"]),
  Meta("GD25L*40", <<\hc8, \h60, \h13>>, 512, S4_32_64, NV, 40, [r |-> {"1_1_2"}]),
  NoSfdp("GD25LD40C", <<\hc8, \h60, \h13>>, 512, S4_32_64, NV, 40, [r |-> {"1_1_2"}, wp |-> "gd25dxc_wpr"]),
  NoSfdp("GD25LD40E", <<\hc8, \h60, \h13>>, 512, S4_32_64, NV, 40, [r |-> {"1_1_2"}, wp |-> "gd25dxe_wpr"]),
  NoSfdp("GD25LE40C", <<\hc8, \h60, \h13>>, 512, S4_32_64, NV50, 90, [alias |-> {"GD25LQ40C"},
      qe |-> "SR2_BIT1_WR_SR1", r |-> X2 \cup X4, p |-> {"1_1_4"}, wp |-> "wpr_3bp_tb_sec_cmp"]),
  Sfdp("GD25LE40E", <<\hc8, \h60, \h13>>, 512, 133, [alias |-> {"GD25LQ40E"}, wp |-> "wpr_3bp_tb_sec_cmp"]),
  Meta("GD25W*40", <<\hc8, \h64, \h13>>, 512, S4_32_64, NV, 40, [r |-> {"1_1_2"}]) >>

gigadevice_parts_4 == <<
  NoSfdp("GD25WD40C", <<\hc8, \h64, \h13>>, 512, S4_32_64, NV, 50, [r |-> {"1_1_2"}, quad |-> 40,
      wp |-> "gd25dxc_wpr"]),
  NoSfdp("GD25WD40E", <<\hc8, \h64, \h13>>, 512, S4_32_64, NV, 50, [r |-> {"1_1_2"}, quad |-> 40,
      wp |-> "gd25dxe_wpr"]),
  Sfdp("GD25WQ40E", <<\hc8, \h65, \h13>>, 512, 60, [wp |-> "wpr_3bp_tb_sec_cmp", dc |-> "gd_1bit_60_50mhz",
      dcacc |-> "gd_srcr_bit12"]),
  NoSfdp("GD25VE40C", <<\hc8, \h42, \h13>>, 512, S4_32_64, NV50, 104, [alias |-> {"GD25VQ40C"},
      qe |-> "SR2_BIT1_WR_SR1", r |-> X2 \cup X4, p |-> {"1_1_4"}, wp |-> "wpr_3bp_tb_sec_cmp"]),
  Meta("GD25*80", <<\hc8, \h40, \h14>>, 1024, S4_32_64, NV, 80, [r |-> X2]),
  NoSfdp("GD25D80C", <<\hc8, \h40, \h14>>, 1024, S4_32_64, NV, 104, [r |-> {"1_1_2"}, dual |-> 80,
      wp |-> "gd25dxc_wpr"]),
  NoSfdp("GD25D80E", <<\hc8, \h40, \h14>>, 1024, S4_32_64, NV, 104, [r |-> {"1_1_2"}, dual |-> 80,
      wp |-> "gd25dxe_wpr"]),
  NoSfdp("GD25Q80", <<\hc8, \h40, \h14>>, 1024, S4_32_64, NV, 120, [qe |-> "SR2_BIT1_WR_SR1", r |-> X2 \cup X4,
      p |-> {"1_1_4"}, wp |-> "wpr_3bp_tb_sec"]),
  NoSfdp("GD25Q80B", <<\hc8, \h40, \h14>>, 1024, S4_32_64, NV, 120, [qe |-> "SR2_BIT1_WR_SR1", r |-> X2 \cup X4,
      p |-> {"1_1_4"}, wp |-> "wpr_3bp_tb_sec_cmp"]),
  NoSfdp("GD25Q80C", <<\hc8, \h40, \h14>>, 1024, S4_32_64, NV50, 120, [qe |-> "SR2_BIT1_WR_SR1", r |-> X2 \cup X4,
      p |-> {"1_1_4"}, wp |-> "wpr_3bp_tb_sec_cmp"]),
  Sfdp("GD25Q80E", <<\hc8, \h40, \h14>>, 1024, 104, [wp |-> "wpr_3bp_tb_sec_cmp", dc |-> "gd_1bit_all_104mhz",
      dcacc |-> "gd_srcr_bit12"]),
  NoSfdp("GD25VQ80C", <<\hc8, \h42, \h14>>, 1024, S4_32_64, NV50, 104, [qe |-> "SR2_BIT1_WR_SR1", r |-> X2 \cup X4,
      p |-> {"1_1_4"}, wp |-> "wpr_3bp_tb_sec_cmp"]),
  Meta("GD25L*80", <<\hc8, \h60, \h14>>, 1024, S4_32_64, NV, 40, [r |-> {"1_1_2"}]) >>

gigadevice_parts_5 == <<
  NoSfdp("GD25LD80C", <<\hc8, \h60, \h14>>, 1024, S4_32_64, NV, 40, [r |-> {"1_1_2"}, wp |-> "gd25dxc_wpr"]),
  NoSfdp("GD25LD80E", <<\hc8, \h60, \h14>>, 1024, S4_32_64, NV, 40, [r |-> {"1_1_2"}, wp |-> "gd25dxe_wpr"]),
  NoSfdp("GD25LE80C", <<\hc8, \h60, \h14>>, 1024, S4_32_64, NV50, 90, [alias |-> {"GD25LQ80C"},
      qe |-> "SR2_BIT1_WR_SR1", r |-> X2 \cup X4, p |-> {"1_1_4"}, wp |-> "wpr_3bp_tb_sec_cmp"]),
  Sfdp("GD25LE80E", <<\hc8, \h60, \h14>>, 1024, 133, [alias |-> {"GD25LQ80E"}, wp |-> "wpr_3bp_tb_sec_cmp",
      dc |-> "gd25le80e", srp |-> TRUE]),
  Sfdp("GD25LF80E", <<\hc8, \h63, \h14>>, 1024, 133, [wp |-> "wpr_3bp_tb_sec_cmp", dc |-> "gd25lf80e",
      srp |-> TRUE]),
  Meta("GD25W*80", <<\hc8, \h64, \h14>>, 1024, S4_32_64, NV, 40, [r |-> {"1_1_2"}]),
  NoSfdp("GD25WD80C", <<\hc8, \h64, \h14>>, 1024, S4_32_64, NV, 50, [r |-> {"1_1_2"}, quad |-> 40,
      wp |-> "gd25dxc_wpr"]),
  NoSfdp("GD25WD80E", <<\hc8, \h64, \h14>>, 1024, S4_32_64, NV, 50, [r |-> {"1_1_2"}, quad |-> 40,
      wp |-> "gd25dxe_wpr"]),
  Sfdp("GD25WQ80E", <<\hc8, \h65, \h14>>, 1024, 60, [wp |-> "wpr_3bp_tb_sec_cmp", dc |-> "gd_1bit_60_50mhz",
      dcacc |-> "gd_srcr_bit12"]),
  Meta("GD25*16", <<\hc8, \h40, \h15>>, 2048, S4_32_64, NV, 40, [r |-> X2]),
  NoSfdp("GD25Q16B", <<\hc8, \h40, \h15>>, 2048, S4_32_64, NV, 120, [qe |-> "SR2_BIT1_WR_SR1", r |-> X2 \cup X4,
      p |-> {"1_1_4"}, wp |-> "wpr_3bp_tb_sec_cmp"]),
  NoSfdp("GD25B16C", <<\hc8, \h40, \h15>>, 2048, S4_32_64, NV50, 120, [alias |-> {"GD25Q16C"},
      qe |-> "SR2_BIT1_WR_SR1", r |-> X2 \cup X4, p |-> {"1_1_4"}, wp |-> "wpr_3bp_tb_sec_cmp"]),
  Sfdp("GD25B16E", <<\hc8, \h40, \h15>>, 2048, 104, [wp |-> "wpr_3bp_tb_sec_cmp", dc |-> "gd_1bit_all_104mhz",
      dcacc |-> "gd_srcr_bit12"]),
  Sfdp("GD25Q16E", <<\hc8, \h40, \h15>>, 2048, 120, [wp |-> "wpr_3bp_tb_sec_cmp", dc |-> "gd_1bit_120_104mhz",
      dcacc |-> "gd_srcr_bit12"]) >>

gigadevice_parts_6 == <<
  NoSfdp("GD25VE16C", <<\hc8, \h42, \h15>>, 2048, S4_32_64, NV50, 104, [alias |-> {"GD25VQ16C"},
      qe |-> "SR2_BIT1_WR_SR1", r |-> X2 \cup X4, p |-> {"1_1_4"}, wp |-> "wpr_3bp_tb_sec_cmp"]),
  Meta("GD25L*16", <<\hc8, \h60, \h15>>, 2048, S4_32_64, NV50, 90, [qe |-> "SR2_BIT1_WR_SR1", r |-> X2 \cup X4,
      p |-> {"1_1_4"}, wp |-> "wpr_3bp_tb_sec_cmp"]),
  NoSfdp("GD25LB16C", <<\hc8, \h60, \h15>>, 2048, S4_32_64, NV50, 104, [qe |-> "SR2_BIT1_WR_SR1", r |-> X2 \cup X4,
      p |-> {"1_1_4"}, wp |-> "wpr_3bp_tb_sec_cmp"]),
  Sfdp("GD25LB16E", <<\hc8, \h60, \h15>>, 2048, 133, [alias |-> {"GD25LE16E", "GD25LQ16E"},
      wp |-> "wpr_3bp_tb_sec_cmp", dc |-> "gd25le80e", srp |-> TRUE]),
  NoSfdp("GD25LE16C", <<\hc8, \h60, \h15>>, 2048, S4_32_64, NV50, 90, [alias |-> {"GD25LQ16C"},
      qe |-> "SR2_BIT1_WR_SR1", r |-> X2 \cup X4, p |-> {"1_1_4"}, wp |-> "wpr_3bp_tb_sec_cmp"]),
  Sfdp("GD25LF16E", <<\hc8, \h63, \h15>>, 2048, 133, [wp |-> "wpr_3bp_tb_sec_cmp", dc |-> "gd25lf80e",
      srp |-> TRUE]),
  Sfdp("GD25WQ16E", <<\hc8, \h65, \h15>>, 2048, 60, [wp |-> "wpr_3bp_tb_sec_cmp", dc |-> "gd_1bit_60_50mhz",
      dcacc |-> "gd_srcr_bit12"]),
  Meta("GD25*32", <<\hc8, \h40, \h16>>, 4096, S4_32_64, NV, 80, [r |-> X2]),
  NoSfdp("GD25Q32B", <<\hc8, \h40, \h16>>, 4096, S4_32_64, NV, 120, [qe |-> "SR2_BIT1_WR_SR1", r |-> X2 \cup X4,
      p |-> {"1_1_4"}, wp |-> "wpr_3bp_tb_sec_cmp"]),
  NoSfdp("GD25B32C", <<\hc8, \h40, \h16>>, 4096, S4_32_64, NV50, 120, [alias |-> {"GD25Q32C"}, qe |-> "SR2_BIT1",
      r |-> X2 \cup X4, p |-> {"1_1_4"}, wp |-> "wpr_3bp_tb_sec_cmp", wpacc |-> "srcr_comb"]),
  Sfdp("GD25B32E", <<\hc8, \h40, \h16>>, 4096, 104, [wp |-> "wpr_3bp_tb_sec_cmp", wpacc |-> "srcr_comb",
      dc |-> "gd_1bit_all_104mhz", dcacc |-> "gd_sr3_bit0"]),
  Sfdp("GD25Q32E", <<\hc8, \h40, \h16>>, 4096, 120, [wp |-> "wpr_3bp_tb_sec_cmp", wpacc |-> "srcr_comb",
      dc |-> "gd_1bit_120_104mhz", dcacc |-> "gd_sr3_bit0"]),
  NoSfdp("GD25VE32C", <<\hc8, \h42, \h16>>, 4096, S4_32_64, NV50, 104, [alias |-> {"GD25VQ32C"}, qe |-> "SR2_BIT1",
      r |-> X2 \cup X4, p |-> {"1_1_4"}, wp |-> "wpr_3bp_tb_sec_cmp", wpacc |-> "srcr_comb"]) >>

gigadevice_parts_7 == <<
  Meta("GD25L*32", <<\hc8, \h60, \h16>>, 4096, S4_32_64, NV50, 80, [qe |-> "SR2_BIT1_WR_SR1", r |-> X2 \cup X4,
      p |-> {"1_1_4"}]),
  NoSfdp("GD25LB32D", <<\hc8, \h60, \h16>>, 4096, S4_32_64, NV50, 120, [qe |-> "SR2_BIT1_WR_SR1", qpi |-> "38H_FFH",
      r |-> X2 \cup QPI, p |-> {"1_1_4", "4_4_4"}, wp |-> "wpr_3bp_tb_sec_cmp", dc |-> "gd25lb32d", srp |-> TRUE]),
  Sfdp("GD25LB32E", <<\hc8, \h60, \h16>>, 4096, 133, [alias |-> {"GD25LE32E", "GD25LQ32E"},
      wp |-> "wpr_3bp_tb_sec_cmp", dc |-> "gd25le80e", srp |-> TRUE]),
  NoSfdp("GD25LE32D", <<\hc8, \h60, \h16>>, 4096, S4_32_64, NV50, 80, [alias |-> {"GD25LQ32D"},
      qe |-> "SR2_BIT1_WR_SR1", qpi |-> "38H_FFH", r |-> X2 \cup QPI, p |-> {"1_1_4", "4_4_4"},
      wp |-> "wpr_3bp_tb_sec_cmp", dc |-> "gd25lb32d", srp |-> TRUE]),
  Sfdp("GD25LF32E", <<\hc8, \h63, \h16>>, 4096, 133, [wp |-> "wpr_3bp_tb_sec_cmp", dc |-> "gd25lf80e",
      srp |-> TRUE]),
  Sfdp("GD25WQ32E", <<\hc8, \h65, \h16>>, 4096, 60, [wp |-> "wpr_3bp_tb_sec_cmp", wpacc |-> "srcr_comb",
      dc |-> "gd_1bit_60_50mhz", dcacc |-> "gd_sr3_bit0"]),
  Meta("GD25*64", <<\hc8, \h40, \h17>>, 8192, S4_32_64, NV, 80, [r |-> X2]),
  NoSfdp("GD25Q64B", <<\hc8, \h40, \h17>>, 8192, S4_32_64, NV, 120, [qe |-> "SR2_BIT1_WR_SR1", r |-> X2 \cup X4,
      p |-> {"1_1_4"}, wp |-> "wpr_3bp_tb_sec_cmp"]),
  NoSfdp("GD25B64C", <<\hc8, \h40, \h17>>, 8192, S4_32_64, NV50, 120, [alias |-> {"GD25Q64C"}, qe |-> "SR2_BIT1",
      r |-> X2 \cup X4, p |-> {"1_1_4"}, wp |-> "wpr_3bp_tb_sec_cmp", wpacc |-> "srcr_comb"]),
  Sfdp("GD25B64E", <<\hc8, \h40, \h17>>, 8192, 104, [wp |-> "wpr_3bp_tb_sec_cmp", wpacc |-> "srcr_comb",
      dc |-> "gd_1bit_all_104mhz", dcacc |-> "gd_sr3_bit0"]),
  Sfdp("GD25Q64E", <<\hc8, \h40, \h17>>, 8192, 120, [wp |-> "wpr_3bp_tb_sec_cmp", wpacc |-> "srcr_comb",
      dc |-> "gd_1bit_120_104mhz", dcacc |-> "gd_sr3_bit0"]),
  NoSfdp("GD25VE64C", <<\hc8, \h42, \h17>>, 8192, S4_32_64, NV50, 104, [alias |-> {"GD25VQ64C"}, qe |-> "SR2_BIT1",
      r |-> X2 \cup X4, p |-> {"1_1_4"}, wp |-> "wpr_3bp_tb_sec_cmp", wpacc |-> "srcr_comb"]) >>

gigadevice_parts_8 == <<
  Meta("GD25L*64", <<\hc8, \h60, \h17>>, 8192, S4_32_64, NV50, 104, [qe |-> "SR2_BIT1_WR_SR1", r |-> X2 \cup X4,
      p |-> {"1_1_4"}]),
  NoSfdp("GD25LB64C", <<\hc8, \h60, \h17>>, 8192, S4_32_64, NV50, 120, [qe |-> "SR2_BIT1_WR_SR1", qpi |-> "38H_FFH",
      r |-> X2 \cup QPI, p |-> {"1_1_4", "4_4_4"}, dual |-> 104, quad |-> 104, wp |-> "wpr_3bp_tb_sec_cmp",
      dc |-> "gd25lb32d", srp |-> TRUE]),
  Sfdp("GD25LB64E", <<\hc8, \h60, \h17>>, 8192, 133, [alias |-> {"GD25LE64E", "GD25LQ64E"},
      wp |-> "wpr_3bp_tb_sec_cmp", dc |-> "gd25le80e", srp |-> TRUE]),
  NoSfdp("GD25LE64C", <<\hc8, \h60, \h17>>, 8192, S4_32_64, NV50, 104, [alias |-> {"GD25LQ64C"},
      qe |-> "SR2_BIT1_WR_SR1", qpi |-> "38H_FFH", r |-> X2 \cup QPI, p |-> {"1_1_4", "4_4_4"},
      wp |-> "wpr_3bp_tb_sec_cmp", dc |-> "gd25lb32d", srp |-> TRUE]),
  Sfdp("GD25LF64E", <<\hc8, \h63, \h17>>, 8192, 133, [wp |-> "wpr_3bp_tb_sec_cmp", dc |-> "gd25lf80e",
      srp |-> TRUE]),
  Sfdp("GD25WQ64E", <<\hc8, \h65, \h17>>, 8192, 60, [wp |-> "wpr_3bp_tb_sec_cmp", wpacc |-> "srcr_comb",
      dc |-> "gd_1bit_60_50mhz", dcacc |-> "gd_sr3_bit0"]),
  Meta("GD25*128", <<\hc8, \h40, \h18>>, 16384, S4_32_64, NV, 70, [r |-> X2]),
  NoSfdp("GD25Q128B", <<\hc8, \h40, \h18>>, 16384, S4_32_64, NV, 104, [qe |-> "SR2_BIT1_WR_SR1", r |-> X2 \cup X4,
      p |-> {"1_1_4"}, wp |-> "wpr_3bp_tb_sec_cmp"]),
  NoSfdp("GD25Q128C", <<\hc8, \h40, \h18>>, 16384, S4_32_64, NV50, 104, [qe |-> "SR2_BIT1", r |-> X2 \cup X4,
      p |-> {"1_1_4"}, dual |-> 80, quad |-> 80, wp |-> "wpr_3bp_tb_sec_cmp", wpacc |-> "srcr_comb"]),
  NoSfdp("GD25B127D", <<\hc8, \h40, \h18>>, 16384, S4_32_64, NV50, 104, [qe |-> "SR2_BIT1", r |-> X2 \cup X4,
      p |-> {"1_1_4"}, dual |-> 80, quad |-> 80, wp |-> "wpr_3bp_tb_sec_cmp", wpacc |-> "srcr_comb"]),
  NoSfdp("GD25Q127C", <<\hc8, \h40, \h18>>, 16384, S4_32_64, NV50, 104, [qe |-> "SR2_BIT1", r |-> X2 \cup X4,
      p |-> {"1_1_4"}, dual |-> 70, quad |-> 70, wp |-> "wpr_3bp_tb_sec_cmp", wpacc |-> "srcr_comb"]),
  Sfdp("GD25B128E", <<\hc8, \h40, \h18>>, 16384, 104, [wp |-> "wpr_3bp_tb_sec_cmp", wpacc |-> "srcr_comb",
      dc |-> "gd_1bit_all_104mhz", dcacc |-> "gd_sr3_bit0"]),
  Sfdp("GD25Q128E", <<\hc8, \h40, \h18>>, 16384, 120, [wp |-> "wpr_3bp_tb_sec_cmp", wpacc |-> "srcr_comb",
      dc |-> "gd_1bit_120_104mhz", dcacc |-> "gd_sr3_bit0"]) >>

gigadevice_parts_9 == <<
  NoSfdp("GD25VQ127C", <<\hc8, \h42, \h18>>, 16384, S4_32_64, NV50, 104, [qe |-> "SR2_BIT1", r |-> X2 \cup X4,
      p |-> {"1_1_4"}, dual |-> 80, quad |-> 80, wp |-> "wpr_3bp_tb_sec_cmp", wpacc |-> "srcr_comb"]),
  Meta("GD25L*128", <<\hc8, \h60, \h18>>, 16384, S4_32_64, NV50, 104, [qe |-> "SR2_BIT1_WR_SR1", r |-> X2 \cup X4,
      p |-> {"1_1_4"}]),
  NoSfdp("GD25LB128D", <<\hc8, \h60, \h18>>, 16384, S4_32_64, NV50, 104, [qe |-> "SR2_BIT1_WR_SR1",
      qpi |-> "38H_FFH", r |-> X2 \cup QPI, p |-> {"1_1_4", "4_4_4"}, wp |-> "wpr_3bp_tb_sec_cmp",
      dc |-> "gd25lb32d", srp |-> TRUE]),
  Sfdp("GD25LB128E", <<\hc8, \h60, \h18>>, 16384, 133, [wp |-> "wpr_3bp_tb_sec_cmp", dc |-> "gd25lb128e",
      srp |-> TRUE]),
  NoSfdp("GD25LE128D", <<\hc8, \h60, \h18>>, 16384, S4_32_64, NV50, 104, [alias |-> {"GD25LQ128D"},
      qe |-> "SR2_BIT1_WR_SR1", qpi |-> "38H_FFH", r |-> X2 \cup QPI, p |-> {"1_1_4", "4_4_4"},
      wp |-> "wpr_3bp_tb_sec_cmp", dc |-> "gd25lb32d", srp |-> TRUE]),
  Sfdp("GD25LE128E", <<\hc8, \h60, \h18>>, 16384, 133, [wp |-> "wpr_3bp_tb_sec_cmp", dc |-> "gd25le128e",
      dcacc |-> "gd_sr3_bit1_0", srp |-> TRUE]),
  Sfdp("GD25LQ128E", <<\hc8, \h60, \h18>>, 16384, 120, [wp |-> "wpr_3bp_tb_sec_cmp", dc |-> "gd25lq128e",
      srp |-> TRUE]),
  Sfdp("GD25LF128E", <<\hc8, \h63, \h18>>, 16384, 166, [wp |-> "wpr_3bp_tb_sec_cmp", dc |-> "gd25lf128e",
      dcacc |-> "gd_sr3_bit1_0", srp |-> TRUE]),
  Sfdp("GD25WQ128E", <<\hc8, \h65, \h18>>, 16384, 60, [wp |-> "wpr_3bp_tb_sec_cmp", wpacc |-> "srcr_comb",
      dc |-> "gd_1bit_60_50mhz", dcacc |-> "gd_sr3_bit0"]),
  Meta("GD25*256", <<\hc8, \h40, \h19>>, 32768, S4_32_64, NV, 70, [a4b |-> {"B7H_E9H", "OPCODE"}, r |-> X2,
      erase4 |-> gd_erase_opcodes_4b]),
  Entry("GD25Q256C", <<\hc8, \h40, \h19>>, 32768, S4_32_64 \cup NV \cup {"NO_SFDP", "SFDP_4B_MODE"}, {"1_1_1"}, 104, [
      qe |-> "SR1_BIT6", a4b |-> {"B7H_E9H", "OPCODE"}, r |-> X2 \cup X4, p |-> {"1_1_4"},
      erase4 |-> gd_erase_opcodes_4b, dual |-> 80, quad |-> 80, wp |-> "gd_wpr_4bp_tb", dc |-> "gd25q256c",
      dcacc |-> "gd_cr_bit7_6", ops |-> "gd25q256c"]),
  Sfdp("GD25B256D", <<\hc8, \h40, \h19>>, 32768, 104, [alias |-> {"GD25Q256D"}, dual |-> 80, quad |-> 80,
      wp |-> "wpr_4bp_tb"]),
  Sfdp("GD25B256E", <<\hc8, \h40, \h19>>, 32768, 133, [alias |-> {"GD25Q256E"}, wp |-> "wpr_4bp_tb",
      dc |-> "gd_2bit_133_104mhz", dcacc |-> "gd_sr3_bit1_0"]) >>

gigadevice_parts_10 == <<
  Sfdp("GD25B257D", <<\hc8, \h40, \h19>>, 32768, 104, [alias |-> {"GD25Q257D"}, dual |-> 80, quad |-> 80,
      wp |-> "wpr_4bp_tb", fix |-> "gd25b257d"]),
  Sfdp("GD25R256D", <<\hc8, \h40, \h19>>, 32768, 104, [dual |-> 80, quad |-> 80, wp |-> "wpr_4bp_tb"]),
  Meta("GD25L*256", <<\hc8, \h60, \h19>>, 32768, S4_32_64, NV50, 104, [qe |-> "SR2_BIT1_WR_SR1", r |-> X2 \cup X4,
      p |-> {"1_1_4"}]),
  NoSfdp("GD25LB256D", <<\hc8, \h60, \h19>>, 32768, S4_32_64, NV50, 120, [qe |-> "SR2_BIT1_WR_SR1",
      qpi |-> "38H_FFH", a4b |-> {"B7H_E9H"}, r |-> X2 \cup QPI, p |-> {"1_1_4", "4_4_4"}, wp |-> "wpr_4bp_tb_cmp",
      dc |-> "gd25lb32d", srp |-> TRUE, fix |-> "gd25lx256d"]),
  NoSfdp("GD25LE256D", <<\hc8, \h60, \h19>>, 32768, S4_32_64, NV50, 104, [alias |-> {"GD25LQ256D"},
      vf |-> {"QPI_4B_OPCODE"}, qe |-> "SR2_BIT1_WR_SR1", qpi |-> "38H_FFH", a4b |-> {"B7H_E9H"}, r |-> X2 \cup QPI,
      p |-> {"1_1_4", "4_4_4"}, wp |-> "wpr_4bp_tb_cmp", dc |-> "gd25lb32d", srp |-> TRUE, fix |-> "gd25lx256d"]),
  Sfdp("GD25LE255E", <<\hc8, \h60, \h19>>, 32768, 133, [vf |-> {"QPI_4B_OPCODE"}, wp |-> "wpr_4bp_tb",
      dc |-> "gd25le255e", dcacc |-> "gd_sr3_bit1_0", srp |-> TRUE]),
  Sfdp("GD25LQ255E", <<\hc8, \h60, \h19>>, 32768, 133, [vf |-> {"QPI_4B_OPCODE"}, wp |-> "wpr_4bp_tb_cmp",
      dc |-> "gd25lb128e", srp |-> TRUE]),
  Sfdp("GD25LF255E", <<\hc8, \h63, \h19>>, 32768, 166, [vf |-> {"QPI_4B_OPCODE"}, wp |-> "wpr_4bp_tb",
      dc |-> "gd25lf128e", dcacc |-> "gd_sr3_bit1_0", srp |-> TRUE]),
  Sfdp("GD25WB256E", <<\hc8, \h65, \h19>>, 32768, 90, [wp |-> "wpr_4bp_tb", dc |-> "gd_2bit_90_80mhz",
      dcacc |-> "gd_sr3_bit1_0"]),
  Sfdp("GD25WQ256E", <<\hc8, \h65, \h19>>, 32768, 60, [wp |-> "wpr_4bp_tb", dc |-> "gd_2bit_60_50mhz",
      dcacc |-> "gd_sr3_bit1_0"]),
  Sfdp("GD25WR256E", <<\hc8, \h65, \h19>>, 32768, 90, [wp |-> "wpr_4bp_tb", dc |-> "gd_2bit_90_80mhz",
      dcacc |-> "gd_sr3_bit1_0"]),
  Sfdp("GD25LB256E", <<\hc8, \h67, \h19>>, 32768, 133, [wp |-> "wpr_4bp_tb", dc |-> "gd25lb256e",
      dcacc |-> "gd_vcr1"]),
  Entry("GD25Q512MC", <<\hc8, \h40, \h20>>, 65536, S4_32_64 \cup NV \cup {"NO_SFDP", "SFDP_4B_MODE"}, {"1_1_1"}, 104, [
      qe |-> "SR1_BIT6", a4b |-> {"B7H_E9H", "OPCODE"}, r |-> X2 \cup X4, p |-> {"1_1_4"},
      erase4 |-> gd_erase_opcodes_4b, dual |-> 80, quad |-> 80, wp |-> "gd_wpr_4bp_tb", dc |-> "gd25q256c",
      dcacc |-> "gd_cr_bit7_6", ops |-> "gd25q256c"]) >>

gigadevice_parts_11 == <<
  Sfdp("GD25S512MD", <<\hc8, \h40, \h19>>, 32768, 104, [dies |-> 2, dual |-> 80, quad |-> 80, wp |-> "wpr_4bp_tb"]),
  Sfdp("GD25S513MD", <<\hc8, \h40, \h19>>, 32768, 104, [dies |-> 2, dual |-> 80, quad |-> 80, wp |-> "wpr_4bp_tb",
      fix |-> "gd25s513md"]),
  Sfdp("GD55B512ME", <<\hc8, \h40, \h1a>>, 65536, 133, [wp |-> "wpr_4bp_tb", dc |-> "gd_2bit_133_104mhz",
      dcacc |-> "gd_sr3_bit1_0"]),
  Sfdp("GD55F512MF", <<\hc8, \h43, \h1a>>, 65536, 133, [wp |-> "wpr_4bp_tb", dc |-> "gd_2bit_133_104mhz",
      dcacc |-> "gd_sr3_bit1_0"]),
  Sfdp("GD25T512ME", <<\hc8, \h46, \h1a>>, 65536, 166, [wp |-> "wpr_4bp_tb", dc |-> "gd25t512me",
      dcacc |-> "gd_vcr1"]),
  Sfdp("GD25B512ME", <<\hc8, \h47, \h1a>>, 65536, 133, [wp |-> "wpr_4bp_tb", dc |-> "gd25lb256e",
      dcacc |-> "gd_vcr1"]),
  Sfdp("GD55WB512ME", <<\hc8, \h65, \h1a>>, 65536, 90, [alias |-> {"GD55WR512ME"}, wp |-> "wpr_4bp_tb",
      dc |-> "gd_2bit_90_80mhz", dcacc |-> "gd_sr3_bit1_0"]),
  Sfdp("GD25LB512ME", <<\hc8, \h67, \h1a>>, 65536, 133, [wp |-> "wpr_4bp_tb", dc |-> "gd25lb256e",
      dcacc |-> "gd_vcr1"]),
  Sfdp("GD55T01GE", <<\hc8, \h46, \h1b>>, 131072, 166, [wp |-> "wpr_4bp_tb", dc |-> "gd25t512me",
      dcacc |-> "gd_vcr1"]),
  Sfdp("GD55B01GE", <<\hc8, \h47, \h1b>>, 131072, 133, [wp |-> "wpr_4bp_tb", dc |-> "gd25lb256e",
      dcacc |-> "gd_vcr1"]),
  Sfdp("GD55LB01GE", <<\hc8, \h67, \h1b>>, 131072, 133, [wp |-> "wpr_4bp_tb", dc |-> "gd25lb256e",
      dcacc |-> "gd_vcr1"]),
  Sfdp("GD55T02GE", <<\hc8, \h46, \h1c>>, 262144, 166, [wp |-> "wpr_4bp_tb", dc |-> "gd25t512me",
      dcacc |-> "gd_vcr1"]),
  Sfdp("GD55B02GE", <<\hc8, \h47, \h1c>>, 262144, 133, [wp |-> "wpr_4bp_tb", dc |-> "gd25lb256e",
      dcacc |-> "gd_vcr1"]),
  Sfdp("GD55LB02GE", <<\hc8, \h67, \h1c>>, 262144, 133, [wp |-> "wpr_4bp_tb", dc |-> "gd25lb256e",
      dcacc |-> "gd_vcr1"]) >>

gigadevice_parts ==
  gigadevice_parts_1 \o gigadevice_parts_2 \o gigadevice_parts_3 \o gigadevice_parts_4 \o 
    gigadevice_parts_5 \o gigadevice_parts_6 \o gigadevice_parts_7 \o gigadevice_parts_8 \o 
    gigadevice_parts_9 \o gigadevice_parts_10 \o gigadevice_parts_11
=============================================================================
