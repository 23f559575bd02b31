---------------------------- MODULE PartsWinbond ----------------------------
(***************************************************************************)
(* The chips of Winbond, XMC and XTX that the SPI-NOR driver knows, in the *)
(* order of the vendors' tables: the first entry that matches an id is the *)
(* one taken.                                                              *)
(***************************************************************************)
EXTENDS SpiNorPart

winbond_parts_1 == <<
  NoSfdp("W25X05", <<\hef, \h30, \h10>>, 64, S4_64, NV, 50, [r |-> {"1_1_2"}, wp |-> "wpr_2bp_all"]),
  NoSfdp("W25X05C", <<\hef, \h30, \h10>>, 64, S4_32_64, NV50, 80, [r |-> X2, wp |-> "wpr_2bp_all"]),
  NoSfdp("W25X10", <<\hef, \h30, \h11>>, 128, S4_64, NV, 50, [r |-> {"1_1_2"}, wp |-> "wpr_2bp_tb"]),
  NoSfdp("W25X10CL", <<\hef, \h30, \h11>>, 128, S4_32_64, NV50, 80, [r |-> X2, wp |-> "wpr_2bp_tb"]),
  NoSfdp("W25Q10EW", <<\hef, \h60, \h11>>, 128, S4_32_64, NV50, 104, [qe |-> "SR2_BIT1", r |-> X2 \cup X4,
      p |-> {"1_1_4"}, wp |-> "wpr_3bp_tb_sec"]),
  NoSfdp("W25X20", <<\hef, \h30, \h12>>, 256, S4_64, NV, 50, [r |-> {"1_1_2"}, wp |-> "wpr_2bp_tb"]),
  NoSfdp("W25X20C", <<\hef, \h30, \h12>>, 256, S4_32_64, NV50, 80, [r |-> X2, wp |-> "wpr_2bp_tb"]),
  NoSfdp("W25Q20CL", <<\hef, \h40, \h12>>, 256, S4_32_64, NV50, 80, [qe |-> "SR2_BIT1_WR_SR1", r |-> X2 \cup X4,
      p |-> {"1_1_4"}, wp |-> "wpr_3bp_tb_sec_cmp"]),
  NoSfdp("W25Q20BW", <<\hef, \h50, \h12>>, 256, S4_32_64, NV50, 80, [qe |-> "SR2_BIT1_WR_SR1", r |-> X2 \cup X4,
      p |-> {"1_1_4"}, wp |-> "wpr_3bp_tb_sec_cmp"]),
  NoSfdp("W25Q20EW", <<\hef, \h60, \h12>>, 256, S4_32_64, NV50, 104, [qe |-> "SR2_BIT1", r |-> X2 \cup X4,
      p |-> {"1_1_4"}, wp |-> "wpr_3bp_tb_sec_cmp"]),
  NoSfdp("W25X40", <<\hef, \h30, \h13>>, 512, S4_64, NV, 50, [r |-> {"1_1_2"}, wp |-> "wpr_3bp_tb"]),
  NoSfdp("W25X40CL", <<\hef, \h30, \h13>>, 512, S4_32_64, NV50, 80, [r |-> X2, wp |-> "wpr_3bp_tb"]),
  NoSfdp("W25Q40", <<\hef, \h40, \h13>>, 512, S4_32_64, NV50, 50, [qe |-> "SR2_BIT1_WR_SR1", r |-> X2 \cup X4,
      p |-> {"1_1_4"}, wp |-> "wpr_3bp_tb_sec_cmp"]),
  NoSfdp("W25Q40CL", <<\hef, \h40, \h13>>, 512, S4_32_64, NV50, 80, [qe |-> "SR2_BIT1_WR_SR1", r |-> X2 \cup X4,
      p |-> {"1_1_4"}, wp |-> "wpr_3bp_tb_sec_cmp"]) >>

winbond_parts_2 == <<
  NoSfdp("W25Q40BW", <<\hef, \h50, \h13>>, 512, S4_32_64, NV50, 80, [qe |-> "SR2_BIT1_WR_SR1", r |-> X2 \cup X4,
      p |-> {"1_1_4"}, wp |-> "wpr_3bp_tb_sec_cmp"]),
  NoSfdp("W25Q40EW", <<\hef, \h60, \h13>>, 512, S4_32_64, NV50, 104, [qe |-> "SR2_BIT1", qpi |-> "38H_FFH",
      r |-> DPI \cup QPI, p |-> {"1_1_4"}, wp |-> "wpr_3bp_tb_sec_cmp", dc |-> "w25q40ew", srp |-> TRUE]),
  NoSfdp("W25X80", <<\hef, \h30, \h14>>, 1024, S4_64, NV, 50, [r |-> {"1_1_2"}, wp |-> "wpr_3bp_tb"]),
  NoSfdp("W25Q80", <<\hef, \h40, \h14>>, 1024, S4_32_64, NV50, 80, [alias |-> {"W25Q80BV", "W25Q80DV"},
      qe |-> "SR2_BIT1_WR_SR1", r |-> X2 \cup X4, wp |-> "wpr_3bp_tb_sec_cmp"]),
  NoSfdp("W25Q80BW", <<\hef, \h50, \h14>>, 1024, S4_32_64, NV50, 80, [qe |-> "SR2_BIT1_WR_SR1", r |-> X2 \cup X4,
      p |-> {"1_1_4"}, wp |-> "wpr_3bp_tb_sec_cmp"]),
  NoSfdp("W25Q80EW", <<\hef, \h60, \h14>>, 1024, S4_32_64, NV50, 104, [qe |-> "SR2_BIT1", qpi |-> "38H_FFH",
      r |-> DPI \cup QPI, p |-> {"1_1_4"}, wp |-> "wpr_3bp_tb_sec_cmp", dc |-> "w25q40ew", srp |-> TRUE]),
  NoSfdp("W25X16", <<\hef, \h30, \h15>>, 2048, S4_64, NV, 50, [r |-> {"1_1_2"}, wp |-> "wpr_3bp_tb"]),
  NoSfdp("W25Q16", <<\hef, \h40, \h15>>, 2048, S4_32_64, NV, 50, [qe |-> "SR2_BIT1_WR_SR1", r |-> X2,
      wp |-> "wpr_3bp_tb_sec_cmp", fix |-> "w25q16xv"]),
  NoSfdp("W25Q16BV", <<\hef, \h40, \h15>>, 2048, S4_32_64, NV, 80, [alias |-> {"W25Q16CV", "W25Q16DV"},
      qe |-> "SR2_BIT1_WR_SR1", r |-> X2, wp |-> "wpr_3bp_tb_sec_cmp"]),
  NoSfdp("W25Q16CL", <<\hef, \h40, \h15>>, 2048, S4_32_64, NV, 50, [qe |-> "SR2_BIT1_WR_SR1", r |-> X2,
      wp |-> "wpr_3bp_tb_sec_cmp"]),
  NoSfdp("W25Q16JV", <<\hef, \h40, \h15>>, 2048, S4_32_64, NV50, 104, [qe |-> "SR2_BIT1", r |-> X2 \cup X4,
      p |-> {"1_1_4"}, wp |-> "wpr_3bp_tb_sec_cmp"]),
  NoSfdp("S25FL016K", <<\hef, \h40, \h15>>, 2048, S4_32_64, NV50, 80, [qe |-> "SR2_BIT1_WR_SR1", r |-> X2 \cup X4,
      p |-> {"1_1_4"}, wp |-> "wpr_3bp_tb_sec_cmp"]) >>

winbond_parts_3 == <<
  Sfdp("W25Q16JV-DTR", <<\hef, \h70, \h15>>, 2048, 104, [wp |-> "wpr_3bp_tb_sec_cmp"]),
  Meta("W25Q16*W", <<\hef, \h60, \h15>>, 2048, S4_32_64, NV50, 80, [qe |-> "SR2_BIT1_WR_SR1", r |-> X2 \cup X4,
      p |-> {"1_1_4"}, wp |-> "wpr_3bp_tb_sec_cmp", fix |-> "w25q16xw"]),
  NoSfdp("W25Q16DW", <<\hef, \h60, \h15>>, 2048, S4_32_64, NV50, 80, [qe |-> "SR2_BIT1_WR_SR1", qpi |-> "38H_FFH",
      r |-> X2 \cup QPI, p |-> {"1_1_4", "4_4_4"}, wp |-> "wpr_3bp_tb_sec_cmp", dc |-> "w25q16dw", srp |-> TRUE]),
  NoSfdp("W25Q16FW", <<\hef, \h60, \h15>>, 2048, S4_32_64, NV50, 80, [qe |-> "SR2_BIT1", qpi |-> "38H_FFH",
      r |-> X2 \cup QPI, p |-> {"1_1_4", "4_4_4"}, wp |-> "wpr_3bp_tb_sec_cmp", dc |-> "w25q40ew", srp |-> TRUE]),
  NoSfdp("W25Q16JW", <<\hef, \h60, \h15>>, 2048, S4_32_64, NV50, 104, [qe |-> "SR2_BIT1", r |-> X2 \cup X4,
      p |-> {"1_1_4"}, wp |-> "wpr_3bp_tb_sec_cmp"]),
  Sfdp("W25Q16JW-DTR", <<\hef, \h80, \h15>>, 2048, 104, [wp |-> "wpr_3bp_tb_sec_cmp", dc |-> "w25q16jw_dtr",
      srp |-> TRUE]),
  NoSfdp("W25X32", <<\hef, \h30, \h16>>, 4096, S4_64, NV, 50, [r |-> {"1_1_2"}, wp |-> "wpr_3bp_tb"]),
  NoSfdp("W25X32BV", <<\hef, \h30, \h16>>, 4096, S4_32_64, NV, 80, [r |-> {"1_1_2"}, wp |-> "wpr_3bp_tb"]),
  NoSfdp("W25Q32", <<\hef, \h40, \h16>>, 4096, S4_32_64, NV50, 80, [qe |-> "SR2_BIT1_WR_SR1", r |-> X2,
      wp |-> "wpr_3bp_tb_sec_cmp", fix |-> "w25q32xv"]),
  NoSfdp("W25Q32BV", <<\hef, \h40, \h16>>, 4096, S4_32_64, NV50, 80, [qe |-> "SR2_BIT1_WR_SR1", r |-> X2,
      wp |-> "wpr_3bp_tb_sec_cmp"]),
  NoSfdp("W25Q32FV", <<\hef, \h40, \h16>>, 4096, S4_32_64, NV50, 80, [qe |-> "SR2_BIT1", qpi |-> "38H_FFH",
      r |-> X2 \cup QPI, p |-> {"1_1_4", "4_4_4"}, wp |-> "wpr_3bp_tb_sec_cmp", dc |-> "w25q32fv", srp |-> TRUE]),
  NoSfdp("W25Q32JV", <<\hef, \h40, \h16>>, 4096, S4_32_64, NV50, 104, [qe |-> "SR2_BIT1", r |-> X2 \cup X4,
      p |-> {"1_1_4"}, wp |-> "wpr_3bp_tb_sec_cmp"]),
  NoSfdp("S25FL032K", <<\hef, \h40, \h16>>, 4096, S4_32_64, NV50, 80, [qe |-> "SR2_BIT1_WR_SR1", r |-> X2 \cup X4,
      p |-> {"1_1_4"}, wp |-> "wpr_3bp_tb_sec_cmp"]) >>

winbond_parts_4 == <<
  Sfdp("W25Q32JV-DTR", <<\hef, \h70, \h16>>, 4096, 104, [wp |-> "wpr_3bp_tb_sec_cmp", dc |-> "w25q32jv_dtr",
      srp |-> TRUE]),
  Meta("W25Q32*W", <<\hef, \h60, \h16>>, 4096, S4_32_64, NV50, 104, [qe |-> "SR2_BIT1_WR_SR1", r |-> X2 \cup X4,
      p |-> {"1_1_4"}, quad |-> 80, wp |-> "wpr_3bp_tb_sec_cmp", fix |-> "w25q32xw"]),
  NoSfdp("W25Q32DW", <<\hef, \h60, \h16>>, 4096, S4_32_64, NV50, 104, [qe |-> "SR2_BIT1_WR_SR1", qpi |-> "38H_FFH",
      r |-> X2 \cup QPI, p |-> {"1_1_4", "4_4_4"}, quad |-> 80, wp |-> "wpr_3bp_tb_sec_cmp", dc |-> "w25q16dw",
      srp |-> TRUE]),
  NoSfdp("W25Q32FW", <<\hef, \h60, \h16>>, 4096, S4_32_64, NV50, 104, [qe |-> "SR2_BIT1", qpi |-> "38H_FFH",
      r |-> X2 \cup QPI, p |-> {"1_1_4", "4_4_4"}, wp |-> "wpr_3bp_tb_sec_cmp", dc |-> "w25q40ew", srp |-> TRUE]),
  NoSfdp("W25Q32JW", <<\hef, \h60, \h16>>, 4096, S4_32_64, NV50, 104, [qe |-> "SR2_BIT1", r |-> X2 \cup X4,
      wp |-> "wpr_3bp_tb_sec_cmp"]),
  Sfdp("W25Q32JW-DTR", <<\hef, \h80, \h16>>, 4096, 104, [wp |-> "wpr_3bp_tb_sec_cmp", dc |-> "w25q32jv_dtr",
      srp |-> TRUE]),
  NoSfdp("W25X64", <<\hef, \h30, \h17>>, 8192, S4_64, NV, 50, [r |-> {"1_1_2"}, wp |-> "wpr_3bp_tb_ratio"]),
  NoSfdp("W25X64BV", <<\hef, \h30, \h17>>, 8192, S4_32_64, NV, 80, [r |-> {"1_1_2"}, wp |-> "wpr_3bp_tb_ratio"]),
  NoSfdp("W25Q64", <<\hef, \h40, \h17>>, 8192, S4_32_64, NV, 80, [qe |-> "SR2_BIT1_WR_SR1", r |-> X2,
      fix |-> "w25q64xv"]),
  NoSfdp("W25Q64BV", <<\hef, \h40, \h17>>, 8192, S4_32_64, NV, 80, [qe |-> "SR2_BIT1_WR_SR1", r |-> X2,
      wp |-> "wpr_3bp_tb_sec_ratio"]),
  NoSfdp("W25Q64CV", <<\hef, \h40, \h17>>, 8192, S4_32_64, NV50, 80, [qe |-> "SR2_BIT1_WR_SR1", r |-> X2 \cup X4,
      p |-> {"1_1_4"}, wp |-> "wpr_3bp_tb_sec_cmp_ratio"]),
  NoSfdp("W25Q64FV", <<\hef, \h40, \h17>>, 8192, S4_32_64, NV50, 80, [qe |-> "SR2_BIT1_WR_SR1", qpi |-> "38H_FFH",
      r |-> X2 \cup QPI, p |-> {"1_1_4", "4_4_4"}, wp |-> "wpr_3bp_tb_sec_cmp_ratio", dc |-> "w25q64fv",
      srp |-> TRUE]),
  NoSfdp("W25Q64JV", <<\hef, \h40, \h17>>, 8192, S4_32_64, NV50, 104, [qe |-> "SR2_BIT1", r |-> X2 \cup X4,
      p |-> {"1_1_4"}, wp |-> "wpr_3bp_tb_sec_cmp_ratio"]) >>

winbond_parts_5 == <<
  NoSfdp("S25FL064K", <<\hef, \h40, \h17>>, 8192, S4_32_64, NV50, 80, [qe |-> "SR2_BIT1_WR_SR1", r |-> X2 \cup X4,
      p |-> {"1_1_4"}, wp |-> "wpr_3bp_tb_sec_cmp_ratio"]),
  Sfdp("W25Q64JV-DTR", <<\hef, \h70, \h17>>, 8192, 104, [wp |-> "wpr_3bp_tb_sec_cmp_ratio", dc |-> "w25q32jv_dtr",
      srp |-> TRUE]),
  Meta("W25Q64*W", <<\hef, \h60, \h17>>, 8192, S4_32_64, NV50, 104, [qe |-> "SR2_BIT1_WR_SR1", r |-> X2 \cup X4,
      p |-> {"1_1_4"}, quad |-> 80, fix |-> "w25q64xw"]),
  NoSfdp("W25Q64DW", <<\hef, \h60, \h17>>, 8192, S4_32_64, NV50, 104, [qe |-> "SR2_BIT1_WR_SR1", qpi |-> "38H_FFH",
      r |-> X2 \cup QPI, p |-> {"1_1_4", "4_4_4"}, quad |-> 80, wp |-> "wpr_3bp_tb_sec_ratio", dc |-> "w25q16dw",
      srp |-> TRUE]),
  NoSfdp("W25Q64FW", <<\hef, \h60, \h17>>, 8192, S4_32_64, NV50, 104, [qe |-> "SR2_BIT1", qpi |-> "38H_FFH",
      r |-> X2 \cup QPI, p |-> {"1_1_4", "4_4_4"}, wp |-> "wpr_3bp_tb_sec_cmp_ratio", dc |-> "w25q40ew",
      srp |-> TRUE]),
  NoSfdp("W25Q64JW", <<\hef, \h60, \h17>>, 8192, S4_32_64, NV50, 104, [qe |-> "SR2_BIT1", r |-> X2 \cup X4,
      p |-> {"1_1_4"}, wp |-> "wpr_3bp_tb_sec_cmp_ratio"]),
  Sfdp("W25Q64JW-DTR", <<\hef, \h80, \h17>>, 8192, 104, [wp |-> "wpr_3bp_tb_sec_cmp_ratio", dc |-> "w25q64jw_dtr",
      srp |-> TRUE]),
  NoSfdp("W25Q128", <<\hef, \h40, \h18>>, 16384, S4_32_64, NV50, 104, [qe |-> "SR2_BIT1_WR_SR1", quad |-> 70,
      wp |-> "wpr_3bp_tb_sec_cmp_ratio", fix |-> "w25q128xv"]),
  NoSfdp("W25Q128BV", <<\hef, \h40, \h18>>, 16384, S4_32_64, NV50, 104, [qe |-> "SR2_BIT1_WR_SR1", quad |-> 70,
      wp |-> "wpr_3bp_tb_sec_cmp_ratio"]),
  NoSfdp("W25Q128FV", <<\hef, \h40, \h18>>, 16384, S4_32_64, NV50, 104, [qe |-> "SR2_BIT1", qpi |-> "38H_FFH",
      r |-> X2 \cup QPI, p |-> {"1_1_4", "4_4_4"}, wp |-> "wpr_3bp_tb_sec_cmp_ratio", dc |-> "w25q128fv",
      srp |-> TRUE]),
  NoSfdp("W25Q128JV", <<\hef, \h40, \h18>>, 16384, S4_32_64, NV50, 104, [qe |-> "SR2_BIT1", r |-> X2 \cup X4,
      p |-> {"1_1_4"}, wp |-> "wpr_3bp_tb_sec_cmp_ratio"]),
  NoSfdp("S25FL128K", <<\hef, \h40, \h18>>, 16384, S4_32_64, NV50, 104, [qe |-> "SR2_BIT1_WR_SR1", r |-> X2 \cup X4,
      p |-> {"1_1_4"}, quad |-> 70, wp |-> "wpr_3bp_tb_sec_cmp_ratio"]) >>

winbond_parts_6 == <<
  Sfdp("W25Q128JV-DTR", <<\hef, \h70, \h18>>, 16384, 104, [wp |-> "wpr_3bp_tb_sec_cmp_ratio", dc |-> "w25q32jv_dtr",
      srp |-> TRUE]),
  Meta("W25Q128*W", <<\hef, \h60, \h18>>, 16384, S4_32_64, NV50, 104, [qe |-> "SR2_BIT1_WR_SR1", r |-> X2 \cup X4,
      p |-> {"1_1_4"}, quad |-> 80, wp |-> "wpr_3bp_tb_sec_cmp_ratio", fix |-> "w25q128xw"]),
  NoSfdp("W25Q128DW", <<\hef, \h60, \h18>>, 16384, S4_32_64, NV50, 104, [qe |-> "SR2_BIT1_WR_SR1",
      qpi |-> "38H_FFH", r |-> X2 \cup QPI, p |-> {"1_1_4", "4_4_4"}, quad |-> 80,
      wp |-> "wpr_3bp_tb_sec_cmp_ratio", dc |-> "w25q16dw", srp |-> TRUE]),
  NoSfdp("W25Q128FW", <<\hef, \h60, \h18>>, 16384, S4_32_64, NV50, 104, [qe |-> "SR2_BIT1", qpi |-> "38H_FFH",
      r |-> X2 \cup QPI, p |-> {"1_1_4", "4_4_4"}, wp |-> "wpr_3bp_tb_sec_cmp_ratio", dc |-> "w25q40ew",
      srp |-> TRUE]),
  NoSfdp("W25Q128JW", <<\hef, \h60, \h18>>, 16384, S4_32_64, NV50, 104, [qe |-> "SR2_BIT1", r |-> X2 \cup X4,
      p |-> {"1_1_4"}, wp |-> "wpr_3bp_tb_sec_cmp_ratio"]),
  Sfdp("W25Q128JW-DTR", <<\hef, \h80, \h18>>, 16384, 104, [wp |-> "wpr_3bp_tb_sec_cmp_ratio", dc |-> "w25q64jw_dtr",
      srp |-> TRUE]),
  NoSfdp("W25Q256", <<\hef, \h40, \h19>>, 32768, S4_32_64, NV50, 104, [qe |-> "SR2_BIT1", a4b |-> {"B7H_E9H"},
      r |-> X2 \cup X4, p |-> {"1_1_4"}, wp |-> "wpr_4bp_tb_cmp", fix |-> "w25q256xv"]),
  NoSfdp("W25Q256BV", <<\hef, \h40, \h19>>, 32768, S4_32_64, NV50, 104, [qe |-> "SR2_BIT1", a4b |-> {"B7H_E9H"},
      r |-> X2 \cup X4, p |-> {"1_1_4"}, wp |-> "wpr_4bp_tb_cmp"]),
  Entry("W25Q256FV", <<\hef, \h40, \h19>>, 32768, S4_32_64 \cup NV50 \cup {"NO_SFDP", "SFDP_4B_MODE"}, {"1_1_1"}, 104, [
      qe |-> "SR2_BIT1", qpi |-> "38H_FFH", a4b |-> {"B7H_E9H"}, r |-> X2 \cup QPI, p |-> {"1_1_4", "4_4_4"},
      wp |-> "wpr_4bp_tb_cmp", dc |-> "w25q128fv", srp |-> TRUE]),
  NoSfdp("W25Q256JV", <<\hef, \h40, \h19>>, 32768, S4_32_64, NV50, 104, [qe |-> "SR2_BIT1",
      a4b |-> {"B7H_E9H", "OPCODE"}, r |-> X2 \cup X4, p |-> {"1_1_4"}, wp |-> "wpr_4bp_tb_cmp"]),
  Sfdp("W25Q256JV-DTR", <<\hef, \h70, \h19>>, 32768, 104, [wp |-> "wpr_4bp_tb_cmp", dc |-> "w25q32jv_dtr",
      srp |-> TRUE]),
  Sfdp("W25Q256JW", <<\hef, \h60, \h19>>, 32768, 104, [wp |-> "wpr_4bp_tb_cmp"]) >>

winbond_parts_7 == <<
  Sfdp("W25Q256JW-DTR", <<\hef, \h80, \h19>>, 32768, 104, [wp |-> "wpr_4bp_tb_cmp", dc |-> "w25q16jw_dtr",
      srp |-> TRUE]),
  Sfdp("W25Q512JV", <<\hef, \h40, \h20>>, 65536, 103, [dual |-> 80, quad |-> 104, wp |-> "wpr_4bp_tb_cmp"]),
  Sfdp("W25Q512JV-DTR", <<\hef, \h70, \h20>>, 65536, 103, [dual |-> 90, quad |-> 104, wp |-> "wpr_4bp_tb_cmp",
      dc |-> "w25q32jv_dtr", srp |-> TRUE]),
  Sfdp("W25Q512NW", <<\hef, \h60, \h20>>, 65536, 133, [wp |-> "wpr_4bp_tb_cmp"]),
  Sfdp("W25Q512NW-DTR", <<\hef, \h80, \h20>>, 65536, 133, [wp |-> "wpr_4bp_tb_cmp", dc |-> "w25q512nw_dtr",
      srp |-> TRUE]),
  Sfdp("W25M512JV", <<\hef, \h71, \h19>>, 32768, 104, [dies |-> 2, wp |-> "wpr_4bp_tb_cmp"]),
  Sfdp("W25M512JW", <<\hef, \h61, \h19>>, 32768, 104, [dies |-> 2, wp |-> "wpr_4bp_tb_cmp"]),
  Sfdp("W25Q01JV", <<\hef, \h40, \h21>>, 131072, 103, [dual |-> 80, quad |-> 104, wp |-> "wpr_4bp_tb_cmp"]),
  Sfdp("W25Q01JV-DTR", <<\hef, \h70, \h21>>, 131072, 103, [dual |-> 90, quad |-> 104, wp |-> "wpr_4bp_tb_cmp",
      dc |-> "w25q32jv_dtr", srp |-> TRUE]),
  Sfdp("W25Q01NW", <<\hef, \h60, \h21>>, 131072, 133, [wp |-> "wpr_4bp_tb_cmp"]),
  Sfdp("W25Q01NW-DTR", <<\hef, \h80, \h21>>, 131072, 133, [wp |-> "wpr_4bp_tb_cmp", dc |-> "w25q512nw_dtr",
      srp |-> TRUE]),
  Sfdp("W25Q02JV-DTR", <<\hef, \h70, \h22>>, 262144, 103, [dual |-> 90, quad |-> 104, dc |-> "w25q02jv_dtr",
      srp |-> TRUE]),
  Sfdp("W25Q02NW-DTR", <<\hef, \h80, \h22>>, 262144, 133, [dc |-> "w25q512nw_dtr", srp |-> TRUE]) >>

winbond_parts ==
  winbond_parts_1 \o winbond_parts_2 \o winbond_parts_3 \o winbond_parts_4 \o 
    winbond_parts_5 \o winbond_parts_6 \o winbond_parts_7

xmc_parts_1 == <<
  NoSfdp("XM25QH10B", <<\h20, \h40, \h11>>, 128, S4_32_64, NV50, 104, [qe |-> "SR2_BIT1", r |-> X2 \cup X4,
      p |-> {"1_1_4"}, wp |-> "wpr_3bp_tb_sec_cmp"]),
  NoSfdp("XM25QH20B", <<\h20, \h40, \h12>>, 256, S4_32_64, NV50, 104, [qe |-> "SR2_BIT1", r |-> X2 \cup X4,
      p |-> {"1_1_4"}, wp |-> "wpr_3bp_tb_sec_cmp"]),
  NoSfdp("XM25QH40B", <<\h20, \h40, \h13>>, 512, S4_32_64, NV50, 104, [qe |-> "SR2_BIT1", r |-> X2 \cup X4,
      p |-> {"1_1_4"}, wp |-> "wpr_3bp_tb_sec_cmp"]),
  NoSfdp("XM25QU41B", <<\h20, \h50, \h13>>, 512, S4_32_64, NV50, 104, [qe |-> "SR2_BIT1", qpi |-> "38H_FFH",
      r |-> X2 \cup QPI, p |-> {"1_1_4", "4_4_4"}, wp |-> "wpr_3bp_tb_sec_cmp", dc |-> "xm25qu41b", srp |-> TRUE]),
  NoSfdp("XM25QH80B", <<\h20, \h40, \h14>>, 1024, S4_32_64, NV50, 104, [qe |-> "SR2_BIT1", r |-> X2 \cup X4,
      p |-> {"1_1_4"}, wp |-> "wpr_3bp_tb_sec_cmp"]),
  NoSfdp("XM25QU80B", <<\h20, \h50, \h14>>, 1024, S4_32_64, NV50, 104, [qe |-> "SR2_BIT1", qpi |-> "38H_FFH",
      r |-> X2 \cup QPI, p |-> {"1_1_4", "4_4_4"}, wp |-> "wpr_3bp_tb_sec_cmp", dc |-> "xm25qu41b", srp |-> TRUE]),
  Meta("XM25QH16*", <<\h20, \h40, \h15>>, 2048, S4_32_64, NV50, 60, [qe |-> "SR2_BIT1", r |-> {"1_1_2", "1_1_4"},
      p |-> {"1_1_4"}, wp |-> "wpr_3bp_tb_sec_cmp", fix |-> "xm25qh16"]),
  NoSfdp("XM25QH16B", <<\h20, \h40, \h15>>, 2048, S4_32_64, NV50, 104, [qe |-> "SR2_BIT1", qpi |-> "38H_FFH",
      r |-> X2 \cup QPI, p |-> {"1_1_4", "4_4_4"}, wp |-> "wpr_3bp_tb_sec_cmp", dc |-> "xm25qh16b",
      dcacc |-> "xmc_sr3_dc3_0", srp |-> TRUE]),
  Sfdp("XM25QH16C", <<\h20, \h40, \h15>>, 2048, 108, [wp |-> "wpr_3bp_tb_sec_cmp", dc |-> "xm25qh16c",
      srp |-> TRUE]),
  Meta("XM25QU16*", <<\h20, \h50, \h15>>, 2048, S4_32_64, NV50, 60, [qe |-> "SR2_BIT1", r |-> {"1_1_2", "1_1_4"},
      p |-> {"1_1_4"}, wp |-> "wpr_3bp_tb_sec_cmp", fix |-> "xm25qu16"]) >>

xmc_parts_2 == <<
  NoSfdp("XM25QU16B", <<\h20, \h50, \h15>>, 2048, S4_32_64, NV50, 104, [qe |-> "SR2_BIT1", qpi |-> "38H_FFH",
      r |-> X2 \cup QPI, p |-> {"1_1_4", "4_4_4"}, wp |-> "wpr_3bp_tb_sec_cmp", dc |-> "xm25qu41b", srp |-> TRUE]),
  Sfdp("XM25QU16C", <<\h20, \h50, \h15>>, 2048, 108, [wp |-> "wpr_3bp_tb_sec_cmp", dc |-> "xm25qh16c",
      srp |-> TRUE]),
  Sfdp("XM25QW16C", <<\h20, \h42, \h15>>, 2048, 108, [wp |-> "wpr_3bp_tb_sec_cmp", dc |-> "xm25qh16c",
      srp |-> TRUE]),
  Meta("XM25Q*32*", <<\h20, \h40, \h16>>, 4096, S4_32_64, NV50, 60, [qe |-> "SR2_BIT1", r |-> {"1_1_2", "1_1_4"},
      p |-> {"1_1_4"}, wp |-> "wpr_3bp_tb_sec_cmp", fix |-> "xm25qx32"]),
  NoSfdp("XM25QE32C", <<\h20, \h40, \h16>>, 4096, S4_32_64, NV50, 104, [qe |-> "SR2_BIT1", qpi |-> "38H_FFH",
      r |-> X2 \cup QPI, p |-> {"1_1_4", "4_4_4"}, wp |-> "wpr_3bp_tb_sec_cmp", dc |-> "xm25qe32c",
      dcacc |-> "xmc_sr3_dc0", srp |-> TRUE]),
  NoSfdp("XM25QH32B", <<\h20, \h40, \h16>>, 4096, S4_32_64, NV50, 104, [qe |-> "SR2_BIT1", qpi |-> "38H_FFH",
      r |-> X2 \cup QPI, p |-> {"1_1_4", "4_4_4"}, wp |-> "wpr_3bp_tb_sec_cmp", dc |-> "xm25qh16b",
      dcacc |-> "xmc_sr3_dc3_0", srp |-> TRUE]),
  Sfdp("XM25QH32C", <<\h20, \h40, \h16>>, 4096, 108, [wp |-> "wpr_3bp_tb_sec_cmp", dc |-> "xm25qh16c",
      srp |-> TRUE]),
  MetaSfdp("XM25*U32C", <<\h20, \h50, \h16>>, 4096, 108, [wp |-> "wpr_3bp_tb_sec_cmp", fix |-> "xm25xu32c"]),
  Sfdp("XM25QU32C", <<\h20, \h50, \h16>>, 4096, 108, [wp |-> "wpr_3bp_tb_sec_cmp", dc |-> "xm25qh16c",
      srp |-> TRUE]),
  Sfdp("XM25LU32C", <<\h20, \h50, \h16>>, 4096, 133, [wp |-> "wpr_3bp_tb_sec_cmp", dc |-> "xm25lu32c",
      dcacc |-> "xmc_sr3_dc1_0", srp |-> TRUE]),
  Sfdp("XM25QW32C", <<\h20, \h42, \h16>>, 4096, 108, [wp |-> "wpr_3bp_tb_sec_cmp", dc |-> "xm25qh16c",
      srp |-> TRUE]),
  MetaSfdp("XM25Q*32*-QPI", <<\h20, \h60, \h16>>, 4096, 0, [fix |-> "xm25qx32"]),
  MetaSfdp("XM25QH64A", <<\h20, \h70, \h17>>, 8192, 0, [fix |-> "xm25qh64a"]),
  Sfdp("XM25QH64C", <<\h20, \h40, \h17>>, 8192, 133, [wp |-> "wpr_3bp_tb_sec_cmp_ratio", dc |-> "xm25lu32c",
      dcacc |-> "xmc_sr3_dc1_0", srp |-> TRUE]) >>

xmc_parts_3 == <<
  MetaSfdp("XM25*U64C", <<\h20, \h41, \h17>>, 8192, 133, [wp |-> "wpr_3bp_tb_sec_cmp_ratio", fix |-> "xm25xu64c",
      dc |-> "xm25lu32c", dcacc |-> "xmc_sr3_dc1_0", srp |-> TRUE]),
  Sfdp("XM25QU64C", <<\h20, \h41, \h17>>, 8192, 133, [wp |-> "wpr_3bp_tb_sec_cmp_ratio", dc |-> "xm25lu32c",
      dcacc |-> "xmc_sr3_dc1_0", srp |-> TRUE]),
  Sfdp("XM25LU64C", <<\h20, \h41, \h17>>, 8192, 133, [wp |-> "wpr_3bp_tb_sec_cmp_ratio", dc |-> "xm25lu32c",
      dcacc |-> "xmc_sr3_dc1_0", srp |-> TRUE]),
  Sfdp("XM25QW64C", <<\h20, \h42, \h17>>, 8192, 133, [wp |-> "wpr_3bp_tb_sec_cmp_ratio", dc |-> "xm25lu32c",
      dcacc |-> "xmc_sr3_dc1_0", srp |-> TRUE]),
  MetaSfdp("XM25QH128A", <<\h20, \h70, \h18>>, 16384, 0, [fix |-> "xm25qh128a"]),
  Sfdp("XM25QH128C", <<\h20, \h40, \h18>>, 16384, 133, [wp |-> "wpr_3bp_tb_sec_cmp_ratio", dc |-> "xm25lu32c",
      dcacc |-> "xmc_sr3_dc1_0", srp |-> TRUE]),
  MetaSfdp("XM25*U128C", <<\h20, \h41, \h18>>, 16384, 133, [wp |-> "wpr_3bp_tb_sec_cmp_ratio", fix |-> "xm25xu128c",
      dc |-> "xm25lu32c", dcacc |-> "xmc_sr3_dc1_0", srp |-> TRUE]),
  Sfdp("XM25QU128C", <<\h20, \h41, \h18>>, 16384, 133, [wp |-> "wpr_3bp_tb_sec_cmp_ratio", dc |-> "xm25lu32c",
      dcacc |-> "xmc_sr3_dc1_0", srp |-> TRUE]),
  Sfdp("XM25LU128C", <<\h20, \h41, \h18>>, 16384, 133, [wp |-> "wpr_3bp_tb_sec_cmp_ratio", dc |-> "xm25lu32c",
      dcacc |-> "xmc_sr3_dc1_0", srp |-> TRUE]),
  Sfdp("XM25QW128C", <<\h20, \h42, \h18>>, 16384, 133, [wp |-> "wpr_3bp_tb_sec_cmp_ratio", dc |-> "xm25lu32c",
      dcacc |-> "xmc_sr3_dc1_0", srp |-> TRUE]),
  MetaSfdp("XM25QH256B", <<\h20, \h60, \h19>>, 32768, 0, [fix |-> "xm25qh256b"]),
  MetaSfdp("XM25QU256B", <<\h20, \h70, \h19>>, 32768, 0, [fix |-> "xm25qu256b"]),
  Sfdp("XM25QH256C", <<\h20, \h40, \h19>>, 32768, 133, [wp |-> "wpr_4bp_tb_cmp", dc |-> "xm25lu32c",
      dcacc |-> "xmc_sr3_dc4_3", srp |-> TRUE]),
  Sfdp("XM25QU256C", <<\h20, \h41, \h19>>, 32768, 133, [wp |-> "wpr_4bp_tb_cmp", dc |-> "xm25lu32c",
      dcacc |-> "xmc_sr3_dc4_3", srp |-> TRUE]),
  Sfdp("XM25QW256C", <<\h20, \h42, \h19>>, 32768, 133, [wp |-> "wpr_4bp_tb_cmp", dc |-> "xm25lu32c",
      dcacc |-> "xmc_sr3_dc4_3", srp |-> TRUE]),
  Sfdp("XM25QH512C", <<\h20, \h40, \h20>>, 65536, 133, [wp |-> "wpr_4bp_tb_cmp", dc |-> "xm25lu32c",
      dcacc |-> "xmc_sr3_dc4_3", srp |-> TRUE]) >>

xmc_parts_4 == <<
  Sfdp("XM25QU512C", <<\h20, \h41, \h20>>, 65536, 133, [wp |-> "wpr_4bp_tb_cmp", dc |-> "xm25lu32c",
      dcacc |-> "xmc_sr3_dc4_3", srp |-> TRUE]) >>

xmc_parts ==
  xmc_parts_1 \o xmc_parts_2 \o xmc_parts_3 \o xmc_parts_4

xtx_parts_1 == <<
  NoSfdp("XT25F02E", <<\h0b, \h40, \h12>>, 256, S4_64, NV50, 120, [r |-> X2, dual |-> 80, wp |-> "wpr_2bp_lo"]),
  NoSfdp("XT25W02E", <<\h0b, \h60, \h12>>, 256, S4_64, NV50, 60, [r |-> X2, dual |-> 40, wp |-> "wpr_2bp_lo"]),
  Meta("XT25F04*", <<\h0b, \h40, \h13>>, 512, S4_64, NV50, 120, [fix |-> "xf25f04x"]),
  NoSfdp("XT25F04B", <<\h0b, \h40, \h13>>, 512, S4_64, NV50, 120, [wp |-> "wpr_3bp_up"]),
  NoSfdp("XT25F04D", <<\h0b, \h40, \h13>>, 512, S4_32_64, NV50, 120, [r |-> X2, dual |-> 104,
      wp |-> "xtx_wpr_3bp_lo_cmp_sec"]),
  NoSfdp("XT25W04D", <<\h0b, \h60, \h13>>, 512, S4_32_64, NV50, 50, [r |-> X2, dual |-> 30,
      wp |-> "xtx_wpr_3bp_lo_cmp_sec"]),
  NoSfdp("XT25F08B", <<\h0b, \h40, \h14>>, 1024, S4_32_64, NV50, 108, [qe |-> "SR2_BIT1_WR_SR1", r |-> X2 \cup X4,
      p |-> X4, wp |-> "xtx_wpr_4bp_cmp_as_tb"]),
  Sfdp("XT25Q08D", <<\h0b, \h60, \h14>>, 1024, 108, [wp |-> "wpr_3bp_tb_sec_cmp", wpacc |-> "srcr_comb",
      dc |-> "xt25q08d", srp |-> TRUE]),
  NoSfdp("XT25F16B", <<\h0b, \h40, \h15>>, 2048, S4_32_64, NV50, 120, [qe |-> "SR2_BIT1_WR_SR1", r |-> X2 \cup X4,
      p |-> {"1_1_4"}, dual |-> 80, wp |-> "wpr_3bp_tb_sec_cmp"]),
  Sfdp("XT25Q16D", <<\h0b, \h60, \h15>>, 2048, 108, [wp |-> "wpr_3bp_tb_sec_cmp", wpacc |-> "srcr_comb",
      dc |-> "xt25q08d", srp |-> TRUE]),
  Meta("XT25F32*", <<\h0b, \h40, \h16>>, 4096, S4_32_64, NV50, 60, [r |-> {"1_1_2"}, fix |-> "xf25f32x"]),
  NoSfdp("XT25F32B", <<\h0b, \h40, \h16>>, 4096, S4_32_64, NV50, 108, [qe |-> "SR2_BIT1_WR_SR1", qpi |-> "38H_FFH",
      r |-> X2 \cup QPI, p |-> {"1_1_4", "4_4_4"}, dual |-> 86, quad |-> 86, wp |-> "wpr_3bp_tb_sec_cmp",
      dc |-> "xt25f32b", srp |-> TRUE]) >>

xtx_parts_2 == <<
  NoSfdp("XT25F32F", <<\h0b, \h40, \h16>>, 4096, S4_32_64, NV50, 104, [qe |-> "SR2_BIT1", r |-> X2 \cup X4,
      p |-> {"1_1_4"}, wp |-> "wpr_3bp_tb_sec_cmp", wpacc |-> "srcr_comb", dc |-> "xt25f32f",
      dcacc |-> "xtx_sr3_dc0"]),
  Meta("XT25F64*", <<\h0b, \h40, \h17>>, 8192, S4_32_64, NV50, 60, [r |-> {"1_1_2"}, fix |-> "xf25f64x"]),
  NoSfdp("XT25F64B", <<\h0b, \h40, \h17>>, 8192, S4_32_64, NV50, 108, [qe |-> "SR2_BIT1_WR_SR1", qpi |-> "38H_FFH",
      r |-> X2 \cup QPI, p |-> {"1_1_4", "4_4_4"}, dual |-> 86, quad |-> 86, wp |-> "wpr_3bp_tb_sec_cmp_ratio",
      dc |-> "xt25f32b", srp |-> TRUE]),
  NoSfdp("XT25F64F", <<\h0b, \h40, \h17>>, 8192, S4_32_64, NV50, 104, [qe |-> "SR2_BIT1", r |-> X2 \cup X4,
      p |-> {"1_1_4"}, wp |-> "wpr_3bp_tb_sec_cmp_ratio", wpacc |-> "srcr_comb", dc |-> "xt25f32f",
      dcacc |-> "xtx_sr3_dc0"]),
  Sfdp("XT25Q64D", <<\h0b, \h60, \h17>>, 8192, 133, [alias |-> {"XT25BQ64D"}, dual |-> 108, quad |-> 108,
      wp |-> "wpr_3bp_tb_sec_cmp", wpacc |-> "srcr_comb", dc |-> "xt25q64d", srp |-> TRUE]),
  Meta("XT25F128*", <<\h0b, \h40, \h18>>, 16384, S4_32_64, NV50, 60, [r |-> {"1_1_2"},
      wp |-> "wpr_3bp_tb_sec_cmp_ratio", wpacc |-> "srcr_comb", fix |-> "xf25f128x"]),
  NoSfdp("XT25F128B", <<\h0b, \h40, \h18>>, 16384, S4_32_64, NV50, 108, [qe |-> "SR2_BIT1_WR_SR1",
      qpi |-> "38H_FFH", r |-> X2 \cup QPI, p |-> {"1_1_4", "4_4_4"}, dual |-> 86, quad |-> 86,
      wp |-> "wpr_3bp_tb_sec_cmp_ratio", dc |-> "xt25f32b", srp |-> TRUE]),
  NoSfdp("XT25F128F", <<\h0b, \h40, \h18>>, 16384, S4_32_64, NV50, 104, [qe |-> "SR2_BIT1", r |-> X2 \cup X4,
      p |-> {"1_1_4"}, wp |-> "wpr_3bp_tb_sec_cmp_ratio", wpacc |-> "srcr_comb", dc |-> "xt25f32f",
      dcacc |-> "xtx_sr3_dc1_0"]),
  Sfdp("XT25Q128D", <<\h0b, \h60, \h18>>, 16384, 108, [alias |-> {"XT25BQ128D"}, dual |-> 76, quad |-> 76,
      wp |-> "wpr_3bp_tb_sec_cmp", wpacc |-> "srcr_comb", dc |-> "xt25q128d", srp |-> TRUE]),
  Sfdp("XT25F256B", <<\h0b, \h40, \h19>>, 32768, 120, [alias |-> {"XT25BF256B"}, dual |-> 108, quad |-> 104,
      wp |-> "wpr_4bp_tb", dc |-> "xt25f256b", srp |-> TRUE]) >>

xtx_parts ==
  xtx_parts_1 \o xtx_parts_2
=============================================================================
